---------------------------- MODULE Spec2Model ----------------------------
(***************************************************************************)
(* Retrieval-and-response pipeline of the HR assistant (RAG systeme):      *)
(* hr_assistant.HRAssistant, ask_query, llama_inference, faiss_store and    *)
(* the chat / embedding tables of database.DatabaseManager.                 *)
(*                                                                         *)
(* A Python str is a sequence of one-character strings, so that lower(),   *)
(* strip(), "in", slicing, len() and the regular expressions are computed  *)
(* character by character as the code computes them.                       *)
(***************************************************************************)
EXTENDS Integers, Sequences, FiniteSets, TLC

VARIABLES
    conversation_history,  \* HRAssistant.conversation_history (list of turns)
    chats,                 \* rows of table chats of the owner, oldest first
    cv_embeddings,         \* rows of table cv_embeddings, oldest first
    cvs,                   \* rows of table cvs, oldest first
    embedding_model,       \* the loaded sentence transformer (its weights)
    tasks,                 \* coroutines in flight on the event loop: their
                           \* position and locals
    saved,                 \* chats rows written since construction
    calls,                 \* process_query calls made since construction
    call                   \* the operation that ran last: its input and result

vars == <<conversation_history, chats, cv_embeddings, cvs, embedding_model,
          tasks, saved, calls, call>>

-----------------------------------------------------------------------------
(* Python str primitives                                                   *)

UpperChars == <<"A","B","C","D","E","F","G","H","I","J","K","L","M",
                "N","O","P","Q","R","S","T","U","V","W","X","Y","Z">>

LowerChars == <<"a","b","c","d","e","f","g","h","i","j","k","l","m",
                "n","o","p","q","r","s","t","u","v","w","x","y","z">>

Digits == <<"0","1","2","3","4","5","6","7","8","9">>

Range(f) == {f[i] : i \in DOMAIN f}

Whitespace == {" ", "\t", "\n", "\r"}

\* the lower-case letter of each upper-case letter
LowerOf == [c \in Range(UpperChars) |->
               LowerChars[CHOOSE i \in DOMAIN UpperChars : UpperChars[i] = c]]

\* str.lower() on one character
LowerChar(c) == IF c \in DOMAIN LowerOf THEN LowerOf[c] ELSE c

\* str.lower()
Lower(s) == [i \in DOMAIN s |-> LowerChar(s[i])]

\* needle in hay
Contains(hay, needle) ==
    LET h == hay
        n == Len(needle)
    IN  \E i \in 1..(Len(h) - n + 1) :
            \A k \in 1..n : h[i + k - 1] = needle[k]

\* any(word in text for word in words)
ContainsAny(text, words) ==
    LET t == text
    IN  \E j \in DOMAIN words : Contains(t, words[j])

\* str.strip()
RECURSIVE LStripFrom(_, _)
LStripFrom(s, i) ==
    IF i <= Len(s) /\ s[i] \in Whitespace THEN LStripFrom(s, i + 1) ELSE i

RECURSIVE RStripFrom(_, _)
RStripFrom(s, j) ==
    IF j >= 1 /\ s[j] \in Whitespace THEN RStripFrom(s, j - 1) ELSE j

Strip(s) == SubSeq(s, LStripFrom(s, 1), RStripFrom(s, Len(s)))

\* s[-n:]
LastN(s, n) == IF Len(s) <= n THEN s ELSE SubSeq(s, Len(s) - n + 1, Len(s))

\* s[:n]
FirstN(s, n) == IF Len(s) <= n THEN s ELSE SubSeq(s, 1, n)

\* reversed(s)
Reversed(s) == [i \in DOMAIN s |-> s[Len(s) + 1 - i]]

Min2(a, b) == IF a <= b THEN a ELSE b

-----------------------------------------------------------------------------
(* re: the two patterns of the result-count heuristics                     *)

IsDigit(c) == c \in Range(Digits)

\* \w of the re module on ASCII text
IsWordChar(c) == c \in Range(UpperChars) \cup Range(LowerChars)
                       \cup Range(Digits) \cup {"_"}

\* \b at the gap before position i (i in 1..Len(s)+1)
WordBoundary(s, i) ==
    LET before == i > 1 /\ IsWordChar(s[i - 1])
        after  == i <= Len(s) /\ IsWordChar(s[i])
    IN  before # after

\* int(text) of a run of ASCII digits
RECURSIVE ParseInt(_)
ParseInt(ds) ==
    IF ds = <<>> THEN 0
    ELSE 10 * ParseInt(SubSeq(ds, 1, Len(ds) - 1))
         + (CHOOSE v \in 0..9 : Digits[v + 1] = ds[Len(ds)])

\* the last position of the run of digits that starts at i
RECURSIVE RunEnd(_, _)
RunEnd(s, i) ==
    IF i < Len(s) /\ IsDigit(s[i + 1]) THEN RunEnd(s, i + 1) ELSE i

\* re.search of \b(\d+)\b (closing) or \b(\d+) from position i on: at the
\* leftmost start that has a \b before a digit, the greedy \d+ takes the
\* whole run; a closing \b can only hold after the whole run (inside the
\* run both neighbours are digits), so a start whose run fails it is given
\* up and the scan moves on. The result is group(1), or <<>> for None.
RECURSIVE ScanNum(_, _, _)
ScanNum(s, i, closing) ==
    IF i > Len(s) THEN <<>>
    ELSE IF IsDigit(s[i]) /\ WordBoundary(s, i)
              /\ (closing => WordBoundary(s, RunEnd(s, i) + 1))
         THEN SubSeq(s, i, RunEnd(s, i))
         ELSE ScanNum(s, i + 1, closing)

ReSearchNum(s, closing) == ScanNum(s, 1, closing)

-----------------------------------------------------------------------------
(* Intent classifier: hr_assistant.py and ask_query.py                     *)

\* the result-count cap of both implementations
MaxCvCount == 10

keywords == <<
    <<"f","i","n","d">>, <<"s","h","o","w">>, <<"g","e","t">>,
    <<"b","e","s","t">>, <<"t","o","p">>,
    <<"c","a","n","d","i","d","a","t","e","s">>,
    <<"p","r","o","f","i","l","e","s">>, <<"c","v","s">>,
    <<"r","e","s","u","m","e","s">>,
    <<"e","n","g","i","n","e","e","r","s">>,
    <<"d","e","v","e","l","o","p","e","r","s">>,
    <<"s","k","i","l","l","s">>,
    <<"e","x","p","e","r","i","e","n","c","e">>,
    <<"p","y","t","h","o","n">>, <<"j","a","v","a">>,
    <<"m","e","c","h","a","n","i","c","a","l">>,
    <<"e","l","e","c","t","r","i","c","a","l">>,
    <<"s","o","f","t","w","a","r","e">>, <<"w","h","o">> >>

context_indicators == <<
    <<"t","h","a","t">>, <<"t","h","i","s">>, <<"t","h","e","m">>,
    <<"t","h","o","s","e">>, <<"p","r","e","v","i","o","u","s">>,
    <<"e","a","r","l","i","e","r">>, <<"b","e","f","o","r","e">>,
    <<"a","l","s","o">>, <<"t","o","o">>, <<"m","o","r","e">>,
    <<"a","n","o","t","h","e","r">>,
    <<"w","h","a","t"," ","a","b","o","u","t">>,
    <<"h","o","w"," ","a","b","o","u","t">> >>

W_all      == <<"a","l","l">>
W_every    == <<"e","v","e","r","y">>
W_one      == <<"o","n","e">>
W_single   == <<"s","i","n","g","l","e">>
W_best     == <<"b","e","s","t">>
W_top      == <<"t","o","p">>
W_summary  == <<"s","u","m","m","a","r","y">>
W_specific == <<"s","p","e","c","i","f","i","c">>

\* HRAssistant.is_cv_search_query with the lower() call left out
is_cv_search_query_NoLower(query) == ContainsAny(query, keywords)

is_cv_search_query(query) == ContainsAny(Lower(query), keywords)

needs_context(query) == ContainsAny(Lower(query), context_indicators)

\* HRAssistant.extract_cv_count with the keyword branches in the other order
extract_cv_count_MarkersFirst(query) ==
    LET query_lower == Lower(query)
        match == ReSearchNum(query_lower, TRUE)
    IN  IF match # <<>> THEN Min2(ParseInt(match), MaxCvCount)
        ELSE IF ContainsAny(query_lower, <<W_one, W_single, W_best, W_top>>) THEN 3
        ELSE IF ContainsAny(query_lower, <<W_all, W_every>>) THEN 5
        ELSE 4

\* HRAssistant.extract_cv_count with the keyword branches tried first
extract_cv_count_KeywordsFirst(query) ==
    LET query_lower == Lower(query)
        match == ReSearchNum(query_lower, TRUE)
    IN  IF ContainsAny(query_lower, <<W_all, W_every>>) THEN 5
        ELSE IF match # <<>> THEN Min2(ParseInt(match), MaxCvCount)
        ELSE IF ContainsAny(query_lower, <<W_one, W_single, W_best, W_top>>) THEN 3
        ELSE 4

extract_cv_count(query) ==
    LET query_lower == Lower(query)
        match == ReSearchNum(query_lower, TRUE)
    IN  IF match # <<>> THEN Min2(ParseInt(match), MaxCvCount)
        ELSE IF ContainsAny(query_lower, <<W_all, W_every>>) THEN 5
        ELSE IF ContainsAny(query_lower, <<W_one, W_single, W_best, W_top>>) THEN 3
        ELSE 4

\* extract_cv_count_from_query with the one/top/single branch tried before
\* the best/summary branch
extract_cv_count_from_query_SmallFirst(user_query) ==
    LET query_lower == Lower(user_query)
        match == ReSearchNum(query_lower, FALSE)
    IN  IF match # <<>> THEN Min2(ParseInt(match), MaxCvCount)
        ELSE IF ContainsAny(query_lower, <<W_all, W_every>>) THEN 10
        ELSE IF ContainsAny(query_lower, <<W_one, W_top, W_single, W_specific>>) THEN 1
        ELSE IF ContainsAny(query_lower, <<W_best, W_summary>>) THEN 5
        ELSE 3

extract_cv_count_from_query(user_query) ==
    LET query_lower == Lower(user_query)
        match == ReSearchNum(query_lower, FALSE)
    IN  IF match # <<>> THEN Min2(ParseInt(match), MaxCvCount)
        ELSE IF ContainsAny(query_lower, <<W_all, W_every>>) THEN 10
        ELSE IF ContainsAny(query_lower, <<W_best, W_summary>>) THEN 5
        ELSE IF ContainsAny(query_lower, <<W_one, W_top, W_single, W_specific>>) THEN 1
        ELSE 3

-----------------------------------------------------------------------------
(* Query texts of the classifier specification: every concatenation of at  *)
(* most MaxFragments fragments.                                             *)

MaxFragments == 3

Fragments == {
    <<" ">>, <<"3">>, <<"1","2">>,
    W_all, <<"A","l","l">>, W_every, W_one, W_single, W_best, W_top,
    W_summary, <<"F","i","n","d">> }

RECURSIVE Texts(_)
Texts(n) ==
    IF n = 0 THEN {<<>>}
    ELSE LET shorter == Texts(n - 1)
         IN  shorter \cup {t \o f : t \in shorter, f \in Fragments}

NoCall == [op |-> "none"]

InitClassify ==
    /\ conversation_history = <<>>
    /\ chats = <<>>
    /\ cv_embeddings = <<>>
    /\ cvs = <<>>
    /\ embedding_model = 0
    /\ tasks = <<>>
    /\ saved = 0
    /\ calls = 0
    /\ call \in {[op |-> "input", query |-> q] : q \in Texts(MaxFragments)}

ExtractCvCount ==
    /\ call.op = "input"
    /\ call' = [op |-> "extract_cv_count", query |-> call.query,
                result |-> extract_cv_count(call.query)]
    /\ UNCHANGED <<conversation_history, chats, cv_embeddings, cvs,
                   embedding_model, tasks, saved, calls>>

ExtractCvCountFromQuery ==
    /\ call.op = "input"
    /\ call' = [op |-> "extract_cv_count_from_query", query |-> call.query,
                result |-> extract_cv_count_from_query(call.query)]
    /\ UNCHANGED <<conversation_history, chats, cv_embeddings, cvs,
                   embedding_model, tasks, saved, calls>>

IsCvSearchQuery ==
    /\ call.op = "input"
    /\ call' = [op |-> "is_cv_search_query", query |-> call.query,
                result |-> is_cv_search_query(call.query)]
    /\ UNCHANGED <<conversation_history, chats, cv_embeddings, cvs,
                   embedding_model, tasks, saved, calls>>

NeedsContext ==
    /\ call.op = "input"
    /\ call' = [op |-> "needs_context", query |-> call.query,
                result |-> needs_context(call.query)]
    /\ UNCHANGED <<conversation_history, chats, cv_embeddings, cvs,
                   embedding_model, tasks, saved, calls>>

NextClassify ==
    \/ ExtractCvCount
    \/ ExtractCvCountFromQuery
    \/ IsCvSearchQuery
    \/ NeedsContext

SpecClassify == InitClassify /\ [][NextClassify]_vars

-----------------------------------------------------------------------------
(* Result-count claims (C7, C8, C9), checked under SpecClassify            *)

\* the maximal digit runs of a text, as (first, last) positions
DigitRuns(s) ==
    {p \in (DOMAIN s) \X (DOMAIN s) :
        /\ p[1] <= p[2]
        /\ \A k \in p[1]..p[2] : IsDigit(s[k])
        /\ (p[1] = 1 \/ ~IsDigit(s[p[1] - 1]))
        /\ (p[2] = Len(s) \/ ~IsDigit(s[p[2] + 1]))}

\* a run that no letter, digit or underscore touches on the left and, when
\* closed, on the right either
Standalone(s, p, closed) ==
    /\ (p[1] = 1 \/ ~IsWordChar(s[p[1] - 1]))
    /\ (closed => (p[2] = Len(s) \/ ~IsWordChar(s[p[2] + 1])))

FirstRun(s, runs) == CHOOSE p \in runs : \A r \in runs : p[1] <= r[1]

RunValue(s, p) == ParseInt(SubSeq(s, p[1], p[2]))

HasNoDigit(s) == \A i \in DOMAIN s : ~IsDigit(s[i])

HasWord(s, w) == Contains(Lower(s), w)

HasHighMarker(s) == HasWord(s, W_all) \/ HasWord(s, W_every)

HasSmallMarker(s) ==
    HasWord(s, W_one) \/ HasWord(s, W_single) \/ HasWord(s, W_best) \/ HasWord(s, W_top)

CountOps == {"extract_cv_count", "extract_cv_count_from_query"}

\* C7 as stated: in both implementations a query that contains an integer
\* literal n (its first run of digits) gets result_count = min(n, 10).
C7_AnyLiteral ==
    (call.op \in CountOps /\ DigitRuns(call.query) # {})
        => call.result = Min2(RunValue(call.query,
                                       FirstRun(call.query, DigitRuns(call.query))),
                              MaxCvCount)

\* C7 amended: the integer that counts is the first standalone digit run: one
\* not preceded by a letter, digit or underscore and, in
\* HRAssistant.extract_cv_count, not followed by one either. For such a run n
\* the result is min(n, 10) whatever markers the text contains.
C7_StandaloneInteger ==
    call.op \in CountOps =>
        LET closed == (call.op = "extract_cv_count")
            tokens == {p \in DigitRuns(call.query) :
                          Standalone(call.query, p, closed)}
        IN  tokens # {} =>
                call.result = Min2(RunValue(call.query, FirstRun(call.query, tokens)),
                                   MaxCvCount)

\* a capped integer next to an "all" marker: "all 12" gives 10, not 5
C7_Witness ==
    /\ call.op = "extract_cv_count"
    /\ HasHighMarker(call.query)
    /\ \E p \in DigitRuns(call.query) :
          Standalone(call.query, p, TRUE) /\ RunValue(call.query, p) > MaxCvCount
    /\ call.result = MaxCvCount

\* C8: HRAssistant.extract_cv_count on a query without an integer: 5 when it
\* contains "all" or "every" (also next to "one", "single", "best", "top"),
\* otherwise 3 when it contains one of those four markers, otherwise 4.
C8_PriorityOrder ==
    (call.op = "extract_cv_count" /\ HasNoDigit(call.query)) =>
        call.result = IF HasHighMarker(call.query) THEN 5
                      ELSE IF HasSmallMarker(call.query) THEN 3
                      ELSE 4

\* "all" together with "top", and the high default wins
C8_Witness ==
    /\ call.op = "extract_cv_count"
    /\ HasNoDigit(call.query)
    /\ HasWord(call.query, W_all)
    /\ HasWord(call.query, W_top)
    /\ call.result = 5

HasOnlySmallMarker(s) ==
    HasNoDigit(s) /\ ~HasHighMarker(s) /\ HasSmallMarker(s)

\* C9 as stated: at each call site every query with one of the four small
\* markers (and no integer, no "all"/"every") gets the count that the marker
\* "one" gets at that call site.
C9_OneDefaultPerSite ==
    (call.op \in CountOps /\ HasOnlySmallMarker(call.query)) =>
        call.result = IF call.op = "extract_cv_count"
                      THEN extract_cv_count(W_one)
                      ELSE extract_cv_count_from_query(W_one)

\* C9 amended: HRAssistant.extract_cv_count gives every such query 3;
\* extract_cv_count_from_query gives 5 to those that contain "best" (or
\* "summary") and 1 to the others.
C9_DefaultsPerSite ==
    (call.op \in CountOps /\ HasOnlySmallMarker(call.query)) =>
        call.result = IF call.op = "extract_cv_count" THEN 3
                      ELSE IF HasWord(call.query, W_best)
                              \/ HasWord(call.query, W_summary) THEN 5
                      ELSE 1

\* "best" at the ask_query call site gets 5 where "one" gets 1
C9_Witness ==
    /\ call.op = "extract_cv_count_from_query"
    /\ HasOnlySmallMarker(call.query)
    /\ HasWord(call.query, W_best)
    /\ call.result = 5
    /\ extract_cv_count_from_query(W_one) = 1

-----------------------------------------------------------------------------
(* The fixed texts of hr_assistant.py and llama_inference.py               *)

\* process_query: the reply to a blank query
\* "Please ask me something!"
MSG_ASK_SOMETHING == <<
    "P","l","e","a","s","e"," ","a","s","k"," ","m","e"," ","s","o","m",
    "e","t","h","i","n","g","!" >>

\* handle_cv_search: no results
\* "I couldn't find any relevant CVs for your query."
MSG_NO_CVS == <<
    "I"," ","c","o","u","l","d","n","'","t"," ","f","i","n","d"," ","a",
    "n","y"," ","r","e","l","e","v","a","n","t"," ","C","V","s"," ","f",
    "o","r"," ","y","o","u","r"," ","q","u","e","r","y","." >>

\* handle_cv_search: the generator's text is empty
\* "I found the profiles but couldn't generate a response. Please try rephrasing your query."
MSG_SEARCH_EMPTY == <<
    "I"," ","f","o","u","n","d"," ","t","h","e"," ","p","r","o","f","i",
    "l","e","s"," ","b","u","t"," ","c","o","u","l","d","n","'","t"," ",
    "g","e","n","e","r","a","t","e"," ","a"," ","r","e","s","p","o","n",
    "s","e","."," ","P","l","e","a","s","e"," ","t","r","y"," ","r","e",
    "p","h","r","a","s","i","n","g"," ","y","o","u","r"," ","q","u","e",
    "r","y","." >>

\* handle_cv_search: run_llama raised
\* "Sorry, I encountered an error processing your request."
MSG_SEARCH_ERROR == <<
    "S","o","r","r","y",","," ","I"," ","e","n","c","o","u","n","t","e",
    "r","e","d"," ","a","n"," ","e","r","r","o","r"," ","p","r","o","c",
    "e","s","s","i","n","g"," ","y","o","u","r"," ","r","e","q","u","e",
    "s","t","." >>

\* handle_chat: the generator's text is empty
\* "I'm here to help with HR and candidate questions. What would you like to know?"
MSG_CHAT_EMPTY == <<
    "I","'","m"," ","h","e","r","e"," ","t","o"," ","h","e","l","p"," ",
    "w","i","t","h"," ","H","R"," ","a","n","d"," ","c","a","n","d","i",
    "d","a","t","e"," ","q","u","e","s","t","i","o","n","s","."," ","W",
    "h","a","t"," ","w","o","u","l","d"," ","y","o","u"," ","l","i","k",
    "e"," ","t","o"," ","k","n","o","w","?" >>

\* handle_chat: run_llama raised
\* "I'm here to help! Try asking me about candidates or CVs."
MSG_CHAT_ERROR == <<
    "I","'","m"," ","h","e","r","e"," ","t","o"," ","h","e","l","p","!",
    " ","T","r","y"," ","a","s","k","i","n","g"," ","m","e"," ","a","b",
    "o","u","t"," ","c","a","n","d","i","d","a","t","e","s"," ","o","r",
    " ","C","V","s","." >>

\* simple_responses['hi']
\* "Hello! I'm your HR assistant. I can help you find candidates and answer questions about CVs. What would you like to know?"
RESP_hi == <<
    "H","e","l","l","o","!"," ","I","'","m"," ","y","o","u","r"," ","H",
    "R"," ","a","s","s","i","s","t","a","n","t","."," ","I"," ","c","a",
    "n"," ","h","e","l","p"," ","y","o","u"," ","f","i","n","d"," ","c",
    "a","n","d","i","d","a","t","e","s"," ","a","n","d"," ","a","n","s",
    "w","e","r"," ","q","u","e","s","t","i","o","n","s"," ","a","b","o",
    "u","t"," ","C","V","s","."," ","W","h","a","t"," ","w","o","u","l",
    "d"," ","y","o","u"," ","l","i","k","e"," ","t","o"," ","k","n","o",
    "w","?" >>

\* simple_responses['hello']
\* "Hi there! How can I help you with candidate profiles today?"
RESP_hello == <<
    "H","i"," ","t","h","e","r","e","!"," ","H","o","w"," ","c","a","n",
    " ","I"," ","h","e","l","p"," ","y","o","u"," ","w","i","t","h"," ",
    "c","a","n","d","i","d","a","t","e"," ","p","r","o","f","i","l","e",
    "s"," ","t","o","d","a","y","?" >>

\* simple_responses['help']
\* "I can help you find candidates by searching through CVs. Try asking things like 'find Python developers' or 'show me mechanical engineers'."
RESP_help == <<
    "I"," ","c","a","n"," ","h","e","l","p"," ","y","o","u"," ","f","i",
    "n","d"," ","c","a","n","d","i","d","a","t","e","s"," ","b","y"," ",
    "s","e","a","r","c","h","i","n","g"," ","t","h","r","o","u","g","h",
    " ","C","V","s","."," ","T","r","y"," ","a","s","k","i","n","g"," ",
    "t","h","i","n","g","s"," ","l","i","k","e"," ","'","f","i","n","d",
    " ","P","y","t","h","o","n"," ","d","e","v","e","l","o","p","e","r",
    "s","'"," ","o","r"," ","'","s","h","o","w"," ","m","e"," ","m","e",
    "c","h","a","n","i","c","a","l"," ","e","n","g","i","n","e","e","r",
    "s","'","." >>

\* simple_responses['thanks'] and ['thank you']
\* "You're welcome! Feel free to ask about any candidates or profiles."
RESP_thanks == <<
    "Y","o","u","'","r","e"," ","w","e","l","c","o","m","e","!"," ","F",
    "e","e","l"," ","f","r","e","e"," ","t","o"," ","a","s","k"," ","a",
    "b","o","u","t"," ","a","n","y"," ","c","a","n","d","i","d","a","t",
    "e","s"," ","o","r"," ","p","r","o","f","i","l","e","s","." >>

\* run_llama: the server does not answer
\* "Error: Ollama server is not running. Please start Ollama first."
ERR_NOT_RUNNING == <<
    "E","r","r","o","r",":"," ","O","l","l","a","m","a"," ","s","e","r",
    "v","e","r"," ","i","s"," ","n","o","t"," ","r","u","n","n","i","n",
    "g","."," ","P","l","e","a","s","e"," ","s","t","a","r","t"," ","O",
    "l","l","a","m","a"," ","f","i","r","s","t","." >>

\* run_llama: the model is not installed (no model is)
\* "Error: Model 'llama3.2:3b' not found. Available models: []"
ERR_MODEL_NOT_FOUND == <<
    "E","r","r","o","r",":"," ","M","o","d","e","l"," ","'","l","l","a",
    "m","a","3",".","2",":","3","b","'"," ","n","o","t"," ","f","o","u",
    "n","d","."," ","A","v","a","i","l","a","b","l","e"," ","m","o","d",
    "e","l","s",":"," ","[","]" >>

\* OllamaClient.generate: requests.Timeout
\* "Error: Request timed out (5 minutes)"
ERR_TIMEOUT == <<
    "E","r","r","o","r",":"," ","R","e","q","u","e","s","t"," ","t","i",
    "m","e","d"," ","o","u","t"," ","(","5"," ","m","i","n","u","t","e",
    "s",")" >>

\* OllamaClient.generate: json.JSONDecodeError
\* "Error: Invalid JSON response from Ollama"
ERR_INVALID_JSON == <<
    "E","r","r","o","r",":"," ","I","n","v","a","l","i","d"," ","J","S",
    "O","N"," ","r","e","s","p","o","n","s","e"," ","f","r","o","m"," ",
    "O","l","l","a","m","a" >>

-----------------------------------------------------------------------------
(* Context manager: HRAssistant history and the chats table                *)

\* HRAssistant.user_id of the assistant under study, and another owner
user_id == "u1"
other_user_id == "u2"

max_history_length == 10

\* Python values whose type the code branches on
PyNone == [type |-> "NoneType"]
PyStr(s) == [type |-> "str", s |-> s]
PyList(items) == [type |-> "list", items |-> items]
PyTuple(items) == [type |-> "tuple", items |-> items]

PyInt(n) == [type |-> "int", n |-> n]
PyDict(fields) == [type |-> "dict", fields |-> fields]

\* truthiness of a Python value
Truthy(v) ==
    CASE v.type = "NoneType" -> FALSE
      [] v.type = "str"      -> v.s # <<>>
      [] v.type = "int"      -> v.n # 0
      [] v.type = "dict"     -> DOMAIN v.fields # {}
      [] OTHER               -> v.items # <<>>

UserTurn(content) == [role |-> "user", content |-> content]
AssistantTurn(content) == [role |-> "assistant", content |-> content]

\* the history trim without the trim
KeepRecent_NoTrim(history) == history

\* the history trim keeping the oldest turns, history[:2N]
KeepRecent_DropNewest(history) == FirstN(history, max_history_length * 2)

\* if len(history) > 2N: history = history[-2N:]
KeepRecent(history) ==
    IF Len(history) > max_history_length * 2
    THEN LastN(history, max_history_length * 2)
    ELSE history

\* get_user_chats with ORDER BY created_at ascending
get_user_chats_OldestFirst(rows, uid, limit) ==
    LET mine == SelectSeq(rows, LAMBDA r : r.user_id = uid)
    IN  Reversed(FirstN(mine, limit))

\* DatabaseManager.get_user_chats: the owner's rows, newest first, LIMIT limit
get_user_chats(rows, uid, limit) ==
    LET mine == SelectSeq(rows, LAMBDA r : r.user_id = uid)
    IN  FirstN(Reversed(mine), limit)

\* the loop of _load_conversation_history over reversed(recent_chats)
RECURSIVE TurnsOf(_)
TurnsOf(chronological) ==
    IF chronological = <<>> THEN <<>>
    ELSE <<UserTurn(Head(chronological).query),
           AssistantTurn(Head(chronological).response_text)>>
         \o TurnsOf(Tail(chronological))

\* _load_conversation_history without its except branch
LoadedHistory_NoFallback(rows, db_ok) ==
    KeepRecent(TurnsOf(Reversed(get_user_chats(rows, user_id, max_history_length))))

\* HRAssistant._load_conversation_history; db_ok: get_user_chats did not raise
LoadedHistory(rows, db_ok) ==
    IF db_ok
    THEN KeepRecent(TurnsOf(Reversed(get_user_chats(rows, user_id, max_history_length))))
    ELSE <<>>

\* ChatCreate validation: cv_results is Optional[List[Dict]]
ChatCreateValid(cv_results) == cv_results.type \in {"NoneType", "list"}

\* the chats row of add_to_history without the ranked results
ChatRow_NoResults(user_message, assistant_response, cv_results) ==
    [user_id |-> user_id,
     query |-> user_message,
     query_type |-> IF is_cv_search_query(user_message)
                    THEN "cv_search" ELSE "general_chat",
     response_text |-> assistant_response,
     cv_results |-> PyNone]

\* the chats row of add_to_history; save_chat stores NULL for a falsy
\* cv_results and the JSON text of the list otherwise
ChatRow(user_message, assistant_response, cv_results) ==
    LET query_type == IF is_cv_search_query(user_message)
                      THEN "cv_search" ELSE "general_chat"
        kept == IF query_type = "cv_search" THEN cv_results ELSE PyNone
    IN  [user_id |-> user_id,
         query |-> user_message,
         query_type |-> query_type,
         response_text |-> assistant_response,
         cv_results |-> IF Truthy(kept) THEN kept ELSE PyNone]

\* add_to_history appending the assistant turn before the user turn
HistoryAfterAdd_AssistantFirst(history, user_message, assistant_response) ==
    KeepRecent(history \o <<AssistantTurn(assistant_response),
                            UserTurn(user_message)>>)

\* HRAssistant.add_to_history: the new (conversation_history, chats);
\* save_ok: neither ChatCreate nor save_chat raised
HistoryAfterAdd(history, user_message, assistant_response) ==
    KeepRecent(history \o <<UserTurn(user_message),
                            AssistantTurn(assistant_response)>>)

ChatsAfterAdd(rows, user_message, assistant_response, cv_results, save_ok) ==
    IF save_ok /\ ChatCreateValid(cv_results)
    THEN Append(rows, ChatRow(user_message, assistant_response, cv_results))
    ELSE rows

-----------------------------------------------------------------------------
(* History specification: loads and add_to_history calls on one assistant  *)

\* rows the chats table holds when the assistant is constructed
PersistedLen == 11

\* chats rows one run of the model writes
MaxSaved == 2

PersistedRow(i) ==
    [user_id |-> user_id,
     query |-> <<"q", Digits[(i % 10) + 1]>>,
     query_type |-> "general_chat",
     response_text |-> <<"r", Digits[(i % 10) + 1]>>,
     cv_results |-> PyNone]

OtherOwnerRow ==
    [user_id |-> other_user_id,
     query |-> <<"z">>,
     query_type |-> "general_chat",
     response_text |-> <<"z">>,
     cv_results |-> PyNone]

PersistedLogs ==
    { <<>>,
      <<OtherOwnerRow>>,
      [i \in 1..PersistedLen |-> PersistedRow(i)] \o <<OtherOwnerRow>> }

HistoryUserMessages == { <<"h","i">>, <<"F","i","n","d"," ","3">> }

HistoryAssistantMessages == { <<"o","k">> }

InitHistory ==
    /\ conversation_history = <<>>
    /\ chats \in PersistedLogs
    /\ cv_embeddings = <<>>
    /\ cvs = <<>>
    /\ embedding_model = 0
    /\ tasks = <<>>
    /\ saved = 0
    /\ calls = 0
    /\ call = NoCall

\* await assistant.initialize(), or the task the constructor started
LoadConversationHistory ==
    \E db_ok \in BOOLEAN :
        /\ conversation_history' = LoadedHistory(chats, db_ok)
        /\ call' = [op |-> "_load_conversation_history", db_ok |-> db_ok]
        /\ UNCHANGED <<chats, cv_embeddings, cvs, embedding_model, tasks, saved, calls>>

AddToHistory ==
    \E user_message \in HistoryUserMessages,
       assistant_response \in HistoryAssistantMessages,
       save_ok \in BOOLEAN :
        /\ save_ok => saved < MaxSaved
        /\ conversation_history' =
               HistoryAfterAdd(conversation_history, user_message, assistant_response)
        /\ chats' = ChatsAfterAdd(chats, user_message, assistant_response,
                                  PyNone, save_ok)
        /\ saved' = IF save_ok THEN saved + 1 ELSE saved
        /\ call' = [op |-> "add_to_history",
                    user_message |-> user_message,
                    assistant_response |-> assistant_response,
                    trimmed |-> Len(conversation_history) + 2
                                    > max_history_length * 2]
        /\ UNCHANGED <<cv_embeddings, cvs, embedding_model, tasks, calls>>

NextHistory ==
    \/ LoadConversationHistory
    \/ AddToHistory

SpecHistory == InitHistory /\ [][NextHistory]_vars

-----------------------------------------------------------------------------
(* History claims (C1, C2), checked under SpecHistory                     *)

\* C1: after any sequence of history loads and add_to_history calls the
\* in-memory history holds at most 2 * max_history_length turns.
C1_HistoryBounded ==
    Len(conversation_history) <= 2 * max_history_length

\* a load from a chat log of more than N exchanges of the owner, which
\* fills the history to exactly 2N turns
C1_Witness ==
    /\ call.op = "_load_conversation_history"
    /\ call.db_ok
    /\ Len(SelectSeq(chats, LAMBDA r : r.user_id = user_id)) > max_history_length
    /\ Len(conversation_history) = 2 * max_history_length

\* C2: eviction is FIFO: an add_to_history call that pushes the history past
\* 2N turns leaves the last 2N turns of (history before, user turn,
\* assistant turn).
C2_FifoEviction ==
    [][ (/\ call'.op = "add_to_history"
         /\ Len(conversation_history) + 2 > 2 * max_history_length)
        => conversation_history' =
             LastN(conversation_history
                      \o <<UserTurn(call'.user_message),
                           AssistantTurn(call'.assistant_response)>>,
                   2 * max_history_length) ]_vars

\* an add_to_history call that took the trim branch: 20 turns remain, the
\* new exchange is at the end and the former third turn is now the first
C2_Witness ==
    /\ call.op = "add_to_history"
    /\ call.trimmed
    /\ Len(conversation_history) = 2 * max_history_length
    /\ conversation_history[2 * max_history_length - 1] = UserTurn(call.user_message)
    /\ conversation_history[2 * max_history_length]
           = AssistantTurn(call.assistant_response)
    /\ conversation_history[1].role = "user"

\* the persisted exchanges of the assistant's owner, oldest first
OwnChats == SelectSeq(chats, LAMBDA r : r.user_id = user_id)

\* C16: after a successful history load the in-memory history holds exactly
\* the min(N, number of persisted exchanges) most recent persisted exchanges
\* of the owner, oldest first, each as its user turn followed by its
\* assistant turn.
C16_LoadedMostRecent ==
    (call.op = "_load_conversation_history" /\ call.db_ok) =>
        LET m == Min2(max_history_length, Len(OwnChats))
            skipped == Len(OwnChats) - m
        IN  /\ Len(conversation_history) = 2 * m
            /\ \A i \in 1..m :
                   /\ conversation_history[2 * i - 1]
                          = UserTurn(OwnChats[skipped + i].query)
                   /\ conversation_history[2 * i]
                          = AssistantTurn(OwnChats[skipped + i].response_text)

\* a load of a log of more than N exchanges whose newest one was written by
\* add_to_history
C16_Witness ==
    /\ call.op = "_load_conversation_history"
    /\ call.db_ok
    /\ Len(OwnChats) > max_history_length + 1
    /\ saved > 0
    /\ Len(conversation_history) = 2 * max_history_length
    /\ conversation_history[2 * max_history_length - 1].content
           \in HistoryUserMessages

-----------------------------------------------------------------------------
(* Response generator: llama_inference.run_llama over the Ollama server    *)

\* what the Ollama server does with one run_llama call: "down" (is_available
\* is false), "no_model" (the model is not in /api/tags), "timeout" and
\* "invalid_json" (requests.Timeout and json.JSONDecodeError in generate),
\* "null_response" (HTTP 200 whose JSON has response: null, on which
\* .strip() raises AttributeError), or "ok" with the generated text
OllamaOutcomes ==
    { [kind |-> k] : k \in {"down", "no_model", "timeout", "invalid_json",
                            "null_response"} }
    \cup { [kind |-> "ok", response |-> t] :
             t \in { <<"A","n","n","a"," ","f","i","t","s",".">>,
                     <<>>,
                     <<" ","\n">> } }

GeneratorFailures == {"down", "no_model", "timeout", "invalid_json"}

\* run_llama: [raised, text]; OllamaClient.generate strips the text
run_llama(ollama) ==
    CASE ollama.kind = "down"          -> [raised |-> FALSE, text |-> ERR_NOT_RUNNING]
      [] ollama.kind = "no_model"      -> [raised |-> FALSE, text |-> ERR_MODEL_NOT_FOUND]
      [] ollama.kind = "timeout"       -> [raised |-> FALSE, text |-> ERR_TIMEOUT]
      [] ollama.kind = "invalid_json"  -> [raised |-> FALSE, text |-> ERR_INVALID_JSON]
      [] ollama.kind = "null_response" -> [raised |-> TRUE, text |-> <<>>]
      [] OTHER                         -> [raised |-> FALSE, text |-> Strip(ollama.response)]

-----------------------------------------------------------------------------
(* Similarity ranker: faiss_store.search_user_cvs                          *)

\* Embeddings are vectors of two integers whose length is 0, 1 or 5, so
\* that 25 times the cosine similarity is an integer.
Dot(a, b) == a[1] * b[1] + a[2] * b[2]

\* the vector's length; sklearn's normalize divides a zero vector by 1
NormOrOne(a) ==
    LET n == CHOOSE k \in 0..5 : k * k = Dot(a, a)
    IN  IF n = 0 THEN 1 ELSE n

\* 25 * cosine_similarity(a, b)
cosine_similarity(a, b) == (25 * Dot(a, b)) \div (NormOrOne(a) * NormOrOne(b))

ZeroVector == <<0, 0>>

\* encode() results of the sentence transformer
EncodedVectors == { <<1, 0>>, <<0, 1>> }

\* model.encode(text) of the loaded sentence transformer: a fixed function
\* of the text, which function depending on the model's weights
encode(weights, text) ==
    IF (Len(text) + weights) % 2 = 0 THEN <<1, 0>> ELSE <<0, 1>>

\* embed_model.get_embedding: the zero vector for blank text, else the
\* vector the sentence transformer gives (encoded)
get_embedding(text, encoded) == IF Strip(text) = <<>> THEN ZeroVector ELSE encoded

\* DatabaseManager.get_user_embeddings without its WHERE clause
get_user_embeddings_AllOwners(rows, cv_rows, uid) ==
    LET joined(e) == \E i \in DOMAIN cv_rows : cv_rows[i].id = e.cv_id
        cv(e) == cv_rows[CHOOSE i \in DOMAIN cv_rows : cv_rows[i].id = e.cv_id]
        mine == SelectSeq(rows, joined)
    IN  Reversed([i \in DOMAIN mine |->
                    [cv_id |-> mine[i].cv_id,
                     embedding |-> mine[i].embedding,
                     candidate_name |-> cv(mine[i]).candidate_name]])

\* DatabaseManager.get_user_embeddings: cv_embeddings e JOIN cvs c ON
\* e.cv_id = c.id WHERE e.user_id = uid ORDER BY e.created_at DESC
get_user_embeddings(rows, cv_rows, uid) ==
    LET joined(e) == \E i \in DOMAIN cv_rows : cv_rows[i].id = e.cv_id
        cv(e) == cv_rows[CHOOSE i \in DOMAIN cv_rows : cv_rows[i].id = e.cv_id]
        mine == SelectSeq(rows, LAMBDA e : e.user_id = uid /\ joined(e))
    IN  Reversed([i \in DOMAIN mine |->
                    [cv_id |-> mine[i].cv_id,
                     embedding |-> mine[i].embedding,
                     candidate_name |-> cv(mine[i]).candidate_name]])

\* an insertion that puts the new result before the results of equal
\* similarity
RECURSIVE InsertBySimilarity_Unstable(_, _)
InsertBySimilarity_Unstable(sorted, r) ==
    IF sorted = <<>> THEN <<r>>
    ELSE IF Head(sorted).similarity > r.similarity
         THEN <<Head(sorted)>> \o InsertBySimilarity_Unstable(Tail(sorted), r)
         ELSE <<r>> \o sorted

\* list.sort(key=similarity, reverse=True): stable, by insertion
RECURSIVE InsertBySimilarity(_, _)
InsertBySimilarity(sorted, r) ==
    IF sorted = <<>> THEN <<r>>
    ELSE IF Head(sorted).similarity >= r.similarity
         THEN <<Head(sorted)>> \o InsertBySimilarity(Tail(sorted), r)
         ELSE <<r>> \o sorted

\* a sort that leaves the results in the order of the store
SortBySimilarity_Unsorted(results) == results

RECURSIVE SortBySimilarity(_)
SortBySimilarity(results) ==
    IF results = <<>> THEN <<>>
    ELSE InsertBySimilarity(SortBySimilarity(SubSeq(results, 1, Len(results) - 1)),
                            results[Len(results)])

\* search_user_cvs; store_ok: get_user_embeddings did not raise
search_user_cvs(rows, cv_rows, uid, query, encoded, top_k, store_ok) ==
    IF ~store_ok THEN <<>>
    ELSE LET query_embedding == get_embedding(query, encoded)
             user_embeddings == get_user_embeddings(rows, cv_rows, uid)
             results == [i \in DOMAIN user_embeddings |->
                            [cv_id |-> user_embeddings[i].cv_id,
                             candidate_name |-> user_embeddings[i].candidate_name,
                             similarity |-> cosine_similarity(query_embedding,
                                                user_embeddings[i].embedding)]]
         IN  FirstN(SortBySimilarity(results), top_k)

\* a row of table cv_embeddings (save_cv_embedding) and a row of table cvs
\* (create_cv, update_cv)
EmbeddingRow(cv_id, uid, embedding) ==
    [cv_id |-> cv_id, user_id |-> uid, embedding |-> embedding]

\* the text extract_text_from_pdf reads from a file
ExtractedText(filename) == <<"t","e","x","t"," ","o","f"," ">> \o filename

\* the values of processing_status of a row whose text was never stored
TextlessStatus == {"uploaded", "uploading", "upload_only", "extraction_failed"}

\* a row of table cvs; candidate_name <<>> and summary_json, original_text
\* None are NULL; a row that got past extraction holds its text
CvRow(id, uid, filename, candidate_name, summary_json, processing_status) ==
    [id |-> id, user_id |-> uid, filename |-> filename,
     original_text |-> IF processing_status \in TextlessStatus THEN PyNone
                       ELSE PyStr(ExtractedText(filename)),
     candidate_name |-> candidate_name, summary_json |-> summary_json,
     processing_status |-> processing_status]

-----------------------------------------------------------------------------
(* Ranker specification: search_user_cvs over bounded stores               *)

\* rows of table cv_embeddings in the stores of the ranker specification
MaxStored == 3

Owners == {user_id, other_user_id}

RankVectors == { <<3, 4>>, <<4, 3>>, <<0, 5>> }

\* the file name of the cvs row id
FileName(id) == <<"c", "v", Digits[(id % 10) + 1], ".", "p", "d", "f">>

\* the candidate name of the cvs row id, which names its owner
CandidateName(id, uid) ==
    IF uid = user_id THEN <<"A", Digits[(id % 10) + 1]>>
    ELSE <<"Z", Digits[(id % 10) + 1]>>

RECURSIVE RankStores(_)
RankStores(n) ==
    IF n = 0 THEN { <<>> }
    ELSE LET shorter == RankStores(n - 1)
         IN  shorter \cup
             { Append(st, EmbeddingRow(n, uid, v)) :
                 st \in {x \in shorter : Len(x) = n - 1},
                 uid \in Owners, v \in RankVectors }

\* the cvs rows the embeddings of a store were made from
CvsOf(store) ==
    [i \in DOMAIN store |->
        CvRow(store[i].cv_id, store[i].user_id, FileName(store[i].cv_id),
              CandidateName(store[i].cv_id, store[i].user_id), PyNone,
              "fully_processed")]

RankQueries == { <<" ">>, <<"d","e","v">> }

RankTopK == {0, 1, 2, MaxCvCount}

InitRank ==
    /\ conversation_history = <<>>
    /\ chats = <<>>
    /\ cv_embeddings \in RankStores(MaxStored)
    /\ cvs = CvsOf(cv_embeddings)
    /\ embedding_model = 0
    /\ tasks = <<>>
    /\ saved = 0
    /\ calls = 0
    /\ call \in {[op |-> "input", query |-> q, encoded |-> e, top_k |-> k] :
                    q \in RankQueries, e \in EncodedVectors, k \in RankTopK}

\* vector_store.search_user_cvs(uid, query, top_k)
SearchUserCvs ==
    \E uid \in Owners, store_ok \in BOOLEAN :
        /\ call.op = "input"
        /\ call' = [op |-> "search_user_cvs", user_id |-> uid,
                    query |-> call.query, encoded |-> call.encoded,
                    top_k |-> call.top_k, store_ok |-> store_ok,
                    result |-> search_user_cvs(cv_embeddings, cvs, uid,
                                               call.query, call.encoded,
                                               call.top_k, store_ok)]
        /\ UNCHANGED <<conversation_history, chats, cv_embeddings, cvs,
                       embedding_model, tasks, saved, calls>>

NextRank == SearchUserCvs

SpecRank == InitRank /\ [][NextRank]_vars

-----------------------------------------------------------------------------
(* Ranker claims (C12, C13), checked under SpecRank                        *)

\* the stored vectors of the owner of the last search, oldest first
OwnVectors == SelectSeq(cv_embeddings, LAMBDA e : e.user_id = call.user_id)

\* the similarity of the stored vector of cv_id to the query of the last
\* search
ScoreOf(cv_id) ==
    LET e == cv_embeddings[CHOOSE i \in DOMAIN cv_embeddings :
                               cv_embeddings[i].cv_id = cv_id]
    IN  cosine_similarity(get_embedding(call.query, call.encoded), e.embedding)

StorePosition(cv_id) ==
    LET returned == get_user_embeddings(cv_embeddings, cvs, call.user_id)
    IN  CHOOSE i \in DOMAIN returned : returned[i].cv_id = cv_id

\* C13: candidates of equal similarity stay in the order in which the
\* profile store returned them.
C13_StableTies ==
    (call.op = "search_user_cvs" /\ call.store_ok) =>
        \A i, j \in DOMAIN call.result :
            (i < j /\ call.result[i].similarity = call.result[j].similarity)
                => StorePosition(call.result[i].cv_id)
                       < StorePosition(call.result[j].cv_id)

\* two returned candidates of equal similarity, after a better one
C13_Witness ==
    /\ call.op = "search_user_cvs"
    /\ call.store_ok
    /\ Len(call.result) = 3
    /\ call.result[1].similarity > call.result[2].similarity
    /\ call.result[2].similarity = call.result[3].similarity

-----------------------------------------------------------------------------
(* Prompt composer: build_history_context                                  *)

\* build_history_context: the first line of the context
\* "Previous conversation:\n"
TXT_PREVIOUS_CONVERSATION == <<
    "P","r","e","v","i","o","u","s"," ","c","o","n","v","e","r","s","a",
    "t","i","o","n",":","\n" >>

\* turns of the history that build_history_context renders
ContextWindow == 6

\* characters of a turn's content that build_history_context renders
ContentBudget == 100

\* "User" if msg["role"] == "user" else "Assistant"
RoleLabel(msg) ==
    IF msg.role = "user" THEN <<"U","s","e","r">>
    ELSE <<"A","s","s","i","s","t","a","n","t">>

\* f"{role}: {msg['content'][:100]}...\n"
ContextLine(msg) ==
    RoleLabel(msg) \o <<":"," ">> \o FirstN(msg.content, ContentBudget)
        \o <<".",".",".","\n">>

RECURSIVE ContextLines(_)
ContextLines(msgs) ==
    IF msgs = <<>> THEN <<>>
    ELSE ContextLine(Head(msgs)) \o ContextLines(Tail(msgs))

\* build_history_context over conversation_history instead of its last
\* six turns
build_history_context_WholeHistory(history) ==
    IF history = <<>> THEN <<>>
    ELSE TXT_PREVIOUS_CONVERSATION \o ContextLines(history) \o <<"\n">>

\* HRAssistant.build_history_context
build_history_context(history) ==
    IF history = <<>> THEN <<>>
    ELSE TXT_PREVIOUS_CONVERSATION
             \o ContextLines(LastN(history, ContextWindow)) \o <<"\n">>

-----------------------------------------------------------------------------
(* Context specification: build_history_context over bounded histories     *)

\* exchanges in the histories of the context specification
MaxExchanges == 4

\* a text of n characters
LongText(n) == [i \in 1..n |-> Digits[(i % 10) + 1]]

ContextUserContents == { <<"h","i">>, LongText(ContentBudget + 1) }

ContextAssistantContents == { <<"o","k">>, LongText(ContentBudget) }

RECURSIVE ContextHistories(_)
ContextHistories(n) ==
    IF n = 0 THEN { <<>> }
    ELSE LET shorter == ContextHistories(n - 1)
         IN  shorter \cup
             { h \o <<UserTurn(u), AssistantTurn(a)>> :
                 h \in {x \in shorter : Len(x) = 2 * (n - 1)},
                 u \in ContextUserContents, a \in ContextAssistantContents }

InitContext ==
    /\ conversation_history \in ContextHistories(MaxExchanges)
    /\ chats = <<>>
    /\ cv_embeddings = <<>>
    /\ cvs = <<>>
    /\ embedding_model = 0
    /\ tasks = <<>>
    /\ saved = 0
    /\ calls = 0
    /\ call = NoCall

\* self.build_history_context()
BuildHistoryContext ==
    /\ call' = [op |-> "build_history_context",
                context |-> build_history_context(conversation_history)]
    /\ UNCHANGED <<conversation_history, chats, cv_embeddings, cvs,
                   embedding_model, tasks, saved, calls>>

NextContext == BuildHistoryContext

SpecContext == InitContext /\ [][NextContext]_vars

-----------------------------------------------------------------------------
(* Context claim (C19), checked under SpecContext                          *)

\* the longest line a turn can give: "Assistant: ", 100 characters, "...\n"
MaxLineLen == 9 + 2 + ContentBudget + 4

\* the lines of the context: its text between the first line and the last
\* character, cut after every "...\n"
ContextRendered ==
    LET header == Len(TXT_PREVIOUS_CONVERSATION)
        body == SubSeq(call.context, header + 1, Len(call.context) - 1)
        ends == {i \in 4..Len(body) :
                    /\ body[i] = "\n" /\ body[i - 1] = "."
                    /\ body[i - 2] = "." /\ body[i - 3] = "."}
        EndOf(k) == IF k = 0 THEN 0
                    ELSE CHOOSE e \in ends :
                             Cardinality({x \in ends : x <= e}) = k
    IN  [k \in 1..Cardinality(ends) |-> SubSeq(body, EndOf(k - 1) + 1, EndOf(k))]

\* C19: build_history_context renders at most the last 6 turns of the
\* history, at most the first 100 characters of each turn's content, gives
\* the empty string for an empty history, and leaves conversation_history
\* unchanged.
C19_BoundedProjection ==
    /\ [](call.op = "build_history_context" =>
            IF conversation_history = <<>> THEN call.context = <<>>
            ELSE LET shown == LastN(conversation_history, ContextWindow)
                     lines == ContextRendered
                 IN  /\ Len(lines) = Min2(ContextWindow, Len(conversation_history))
                     /\ \A i \in DOMAIN lines :
                            /\ Len(lines[i]) <= MaxLineLen
                            /\ lines[i] = RoleLabel(shown[i]) \o <<":"," ">>
                                   \o FirstN(shown[i].content, ContentBudget)
                                   \o <<".",".",".","\n">>
                     /\ Len(call.context)
                            <= Len(TXT_PREVIOUS_CONVERSATION)
                                   + ContextWindow * MaxLineLen + 1)
    /\ [][call'.op = "build_history_context"
              => conversation_history' = conversation_history]_vars

\* a context of a history of 8 turns whose last user turn is longer than
\* 100 characters
C19_Witness ==
    /\ call.op = "build_history_context"
    /\ Len(conversation_history) = 8
    /\ Len(conversation_history[7].content) > ContentBudget
    /\ Len(conversation_history[1].content) > ContentBudget
    /\ Len(ContextRendered) = ContextWindow

-----------------------------------------------------------------------------
(* Prompt composer: format_cv_summary and format_cv_for_prompt             *)
(* A summary record is a dict of JSON values: str, int, dict and list.     *)

\* d.get(key) and d.get(key, default)
DictGet(d, key) == IF key \in DOMAIN d.fields THEN d.fields[key] ELSE PyNone

DictGetOr(d, key, default) ==
    IF key \in DOMAIN d.fields THEN d.fields[key] ELSE default

\* str(n) of a non-negative int
RECURSIVE IntToStr(_)
IntToStr(n) ==
    IF n < 10 THEN <<Digits[n + 1]>>
    ELSE IntToStr(n \div 10) \o <<Digits[(n % 10) + 1]>>

\* the keys of a dict in the order in which repr() shows them; the records
\* of this model hold their keys in this order
KeyOrder == << <<"N","a","m","e">>, <<"E","m","a","i","l">>,
               <<"P","h","o","n","e">>,
               <<"E","d","u","c","a","t","i","o","n">>,
               <<"E","x","p","e","r","i","e","n","c","e">>,
               <<"S","k","i","l","l","s">>,
               <<"L","a","n","g","u","a","g","e","s">>,
               <<"D","e","g","r","e","e">>, <<"S","c","h","o","o","l">>,
               <<"C","o","m","p","a","n","y">>, <<"R","o","l","e">> >>

KeyNames == <<"Name", "Email", "Phone", "Education", "Experience", "Skills",
              "Languages", "Degree", "School", "Company", "Role">>

\* sep.join(parts) over a sequence of texts
RECURSIVE JoinTexts(_, _)
JoinTexts(parts, sep) ==
    IF parts = <<>> THEN <<>>
    ELSE IF Len(parts) = 1 THEN parts[1]
    ELSE parts[1] \o sep \o JoinTexts(Tail(parts), sep)

\* repr(v) and str(v) of a JSON value
RECURSIVE PyRepr(_)
PyRepr(v) ==
    CASE v.type = "NoneType" -> <<"N","o","n","e">>
      [] v.type = "str"      -> <<"'">> \o v.s \o <<"'">>
      [] v.type = "int"      -> IntToStr(v.n)
      [] v.type = "list"     ->
            <<"[">> \o JoinTexts([i \in DOMAIN v.items |-> PyRepr(v.items[i])],
                                 <<","," ">>) \o <<"]">>
      [] OTHER               ->
            LET present == SelectSeq([i \in DOMAIN KeyNames |-> i],
                                     LAMBDA i : KeyNames[i] \in DOMAIN v.fields)
            IN  <<"{">> \o JoinTexts([j \in DOMAIN present |->
                                <<"'">> \o KeyOrder[present[j]] \o <<"'",":"," ">>
                                    \o PyRepr(v.fields[KeyNames[present[j]]])],
                            <<","," ">>) \o <<"}">>

PyStrOf(v) == IF v.type = "str" THEN v.s ELSE PyRepr(v)

\* sep.join(values): TypeError when an item is not a str
PyJoin(values, sep) ==
    IF \E i \in DOMAIN values : values[i].type # "str"
    THEN [raised |-> TRUE, text |-> <<>>]
    ELSE [raised |-> FALSE,
          text |-> JoinTexts([i \in DOMAIN values |-> values[i].s], sep)]

\* value[:n]: a list gives its first items, a str its first characters, and
\* an int or a dict raises TypeError
PySlice(v, n) ==
    CASE v.type = "list" -> [raised |-> FALSE, items |-> FirstN(v.items, n)]
      [] v.type = "str"  ->
            [raised |-> FALSE,
             items |-> [i \in 1..Min2(n, Len(v.s)) |-> PyStr(<<v.s[i]>>)]]
      [] OTHER           -> [raised |-> TRUE, items |-> <<>>]

EmptyStr == PyStr(<<>>)

TXT_AT == <<" ","a","t"," ">>
TXT_BAR == <<" ","|"," ">>
TXT_COMMA == <<","," ">>
\* "  • ", the bullet written as an asterisk
TXT_BULLET == <<" "," ","*"," ">>

\* the loop of format_cv_summary over Education: edu_list
RECURSIVE EduList(_)
EduList(items) ==
    IF items = <<>> THEN <<>>
    ELSE LET edu == Head(items)
             degree == DictGetOr(edu, "Degree", EmptyStr)
             school == DictGetOr(edu, "School", EmptyStr)
         IN  (IF edu.type # "dict" THEN <<>>
              ELSE IF Truthy(degree) THEN <<degree>>
              ELSE IF Truthy(school) THEN <<school>>
              ELSE <<>>) \o EduList(Tail(items))

\* the loop of format_cv_summary over Experience: exp_list
RECURSIVE ExpList(_)
ExpList(items) ==
    IF items = <<>> THEN <<>>
    ELSE LET exp == Head(items)
             company == DictGetOr(exp, "Company", EmptyStr)
             role == DictGetOr(exp, "Role", EmptyStr)
         IN  (IF exp.type # "dict" THEN <<>>
              ELSE IF Truthy(role) /\ Truthy(company)
              THEN <<PyStr(PyStrOf(role) \o TXT_AT \o PyStrOf(company))>>
              ELSE IF Truthy(role) THEN <<role>>
              ELSE IF Truthy(company) THEN <<company>>
              ELSE <<>>) \o ExpList(Tail(items))

\* the items a loop of a formatter runs over: value[:n]
SlicedItems(cv_summary, key, n) == PySlice(DictGet(cv_summary, key), n).items

\* one section of format_cv_summary: the line it appends, if any; list is
\* what the loop of the section collects
SummarySection(cv_summary, key, label, n, list) ==
    LET Line(joined) ==
            IF joined.raised THEN [raised |-> TRUE, lines |-> <<>>]
            ELSE [raised |-> FALSE, lines |-> <<label \o joined.text>>]
        Sliced(sliced) ==
            IF sliced.raised THEN [raised |-> TRUE, lines |-> <<>>]
            ELSE IF list = <<>> THEN [raised |-> FALSE, lines |-> <<>>]
            ELSE Line(PyJoin(list, TXT_BAR))
        Section(value) ==
            IF ~Truthy(value) THEN [raised |-> FALSE, lines |-> <<>>]
            ELSE Sliced(PySlice(value, n))
    IN  Section(DictGet(cv_summary, key))

\* the Skills section of format_cv_summary
SummarySkills(cv_summary) ==
    LET Line(joined) ==
            IF joined.raised THEN [raised |-> TRUE, lines |-> <<>>]
            ELSE [raised |-> FALSE,
                  lines |-> << <<"S","k","i","l","l","s",":"," ">>
                                   \o joined.text >>]
        Section(skills) ==
            IF ~Truthy(skills) \/ skills.type # "list"
            THEN [raised |-> FALSE, lines |-> <<>>]
            ELSE Line(PyJoin(FirstN(skills.items, 10), TXT_COMMA))
    IN  Section(DictGet(cv_summary, "Skills"))

\* HRAssistant.format_cv_summary: [raised, text]
format_cv_summary(cv_summary, rank) ==
    LET head == <<"C","A","N","D","I","D","A","T","E"," ">>
                    \o IntToStr(rank) \o <<":">>
        NameLines(name) ==
            IF Truthy(name)
            THEN << <<"N","a","m","e",":"," ">> \o PyStrOf(name) >>
            ELSE <<>>
        Block(name_lines, education, experience, skills) ==
            IF education.raised \/ experience.raised \/ skills.raised
            THEN [raised |-> TRUE, text |-> <<>>]
            ELSE [raised |-> FALSE,
                  text |-> JoinTexts(<<head>> \o name_lines \o education.lines
                                         \o experience.lines \o skills.lines,
                                     <<"\n">>) \o <<"\n">>]
    IN  Block(NameLines(DictGet(cv_summary, "Name")),
              SummarySection(cv_summary, "Education",
                             <<"E","d","u","c","a","t","i","o","n",":"," ">>,
                             2, EduList(SlicedItems(cv_summary, "Education", 2))),
              SummarySection(cv_summary, "Experience",
                             <<"E","x","p","e","r","i","e","n","c","e",":"," ">>,
                             2, ExpList(SlicedItems(cv_summary, "Experience", 2))),
              SummarySkills(cv_summary))

\* the loop of format_cv_for_prompt over Education: the lines it appends
RECURSIVE PromptEduLines(_)
PromptEduLines(items) ==
    IF items = <<>> THEN <<>>
    ELSE LET edu == Head(items)
             degree == DictGetOr(edu, "Degree", EmptyStr)
             school == DictGetOr(edu, "School", EmptyStr)
         IN  (IF edu.type # "dict" THEN <<TXT_BULLET \o PyStrOf(edu)>>
              ELSE IF Truthy(degree) /\ Truthy(school)
              THEN <<TXT_BULLET \o PyStrOf(degree) \o <<" ","-"," ">>
                         \o PyStrOf(school)>>
              ELSE IF Truthy(degree) THEN <<TXT_BULLET \o PyStrOf(degree)>>
              ELSE IF Truthy(school) THEN <<TXT_BULLET \o PyStrOf(school)>>
              ELSE <<>>) \o PromptEduLines(Tail(items))

\* the loop of format_cv_for_prompt over Experience
RECURSIVE PromptExpLines(_)
PromptExpLines(items) ==
    IF items = <<>> THEN <<>>
    ELSE LET exp == Head(items)
             company == DictGetOr(exp, "Company", EmptyStr)
             role == DictGetOr(exp, "Role", EmptyStr)
         IN  (IF exp.type # "dict" THEN <<TXT_BULLET \o PyStrOf(exp)>>
              ELSE IF Truthy(company) /\ Truthy(role)
              THEN <<TXT_BULLET \o PyStrOf(role) \o TXT_AT \o PyStrOf(company)>>
              ELSE IF Truthy(company) THEN <<TXT_BULLET \o PyStrOf(company)>>
              ELSE IF Truthy(role) THEN <<TXT_BULLET \o PyStrOf(role)>>
              ELSE <<>>) \o PromptExpLines(Tail(items))

\* an Education or Experience section of format_cv_for_prompt
PromptSection(cv_summary, key, title, n, entry_lines) ==
    LET value == DictGet(cv_summary, key)
        sliced == PySlice(value, n)
    IN  IF ~Truthy(value) THEN [raised |-> FALSE, lines |-> <<>>]
        ELSE IF sliced.raised THEN [raised |-> TRUE, lines |-> <<>>]
        ELSE [raised |-> FALSE,
              lines |-> <<title>> \o entry_lines]

\* a Skills or Languages section of format_cv_for_prompt
PromptListLine(cv_summary, key, label, n, sep) ==
    LET value == DictGet(cv_summary, key)
        joined == PyJoin(FirstN(value.items, n), sep)
    IN  IF ~Truthy(value) THEN [raised |-> FALSE, lines |-> <<>>]
        ELSE IF value.type # "list"
        THEN [raised |-> FALSE, lines |-> <<label \o PyStrOf(value)>>]
        ELSE IF joined.raised THEN [raised |-> TRUE, lines |-> <<>>]
        ELSE [raised |-> FALSE, lines |-> <<label \o joined.text>>]

\* a Name, Email or Phone line of format_cv_for_prompt
PromptFieldLine(cv_summary, key, label) ==
    IF Truthy(DictGet(cv_summary, key))
    THEN <<label \o PyStrOf(DictGet(cv_summary, key))>>
    ELSE <<>>

\* ask_query.format_cv_for_prompt: [raised, text]
format_cv_for_prompt(cv_summary, rank) ==
    LET head == <<"=","=","="," ","C","A","N","D","I","D","A","T","E"," ">>
                    \o IntToStr(rank) \o <<" ","=","=","=">>
        education == PromptSection(cv_summary, "Education",
                         <<"\n","E","d","u","c","a","t","i","o","n",":">>,
                         3, PromptEduLines(SlicedItems(cv_summary, "Education", 3)))
        experience == PromptSection(cv_summary, "Experience",
                         <<"\n","E","x","p","e","r","i","e","n","c","e",":">>,
                         4, PromptExpLines(SlicedItems(cv_summary, "Experience", 4)))
        skills == PromptListLine(cv_summary, "Skills",
                         <<"\n","S","k","i","l","l","s",":"," ">>, 15, TXT_COMMA)
        languages == PromptListLine(cv_summary, "Languages",
                         <<"L","a","n","g","u","a","g","e","s",":"," ">>, 5,
                         TXT_BAR)
    IN  IF \/ education.raised \/ experience.raised
           \/ skills.raised \/ languages.raised
        THEN [raised |-> TRUE, text |-> <<>>]
        ELSE [raised |-> FALSE,
              text |-> JoinTexts(
                  <<head>>
                      \o PromptFieldLine(cv_summary, "Name",
                                         <<"N","a","m","e",":"," ">>)
                      \o PromptFieldLine(cv_summary, "Email",
                                         <<"E","m","a","i","l",":"," ">>)
                      \o PromptFieldLine(cv_summary, "Phone",
                                         <<"P","h","o","n","e",":"," ">>)
                      \o education.lines \o experience.lines
                      \o skills.lines \o languages.lines,
                  <<"\n">>) \o <<"\n","\n">>]

-----------------------------------------------------------------------------
(* Format specification: the two formatters over bounded summary records   *)

\* ranks of the blocks the format specification composes
MaxRank == 2

EducationEntry ==
    PyDict([Degree |-> PyStr(<<"B","S","c">>), School |-> PyStr(<<"M","I","T">>)])

ExperienceEntry ==
    PyDict([Role |-> PyStr(<<"D","e","v">>), Company |-> PyStr(<<"A","c","m","e">>)])

\* an entry whose only fields are numbers
NumberEntry == PyDict([Degree |-> PyInt(5), Role |-> PyInt(5)])

\* JSON values a field of a summary record holds
FieldValues ==
    { PyStr(<<"A","n","n">>),
      PyInt(7),
      EducationEntry,
      PyList(<<PyStr(<<"S","Q","L">>), PyStr(<<"G","o">>)>>),
      PyList(<<PyStr(<<"S","Q","L">>), PyInt(3)>>),
      PyList(<<EducationEntry, ExperienceEntry>>),
      PyList(<<NumberEntry>>) }

SummaryKeys == {"Name", "Education", "Experience", "Skills"}

\* summary records: every subset of the four fields, every value in each
SummaryRecords ==
    { PyDict(f) : f \in UNION { [K -> FieldValues] : K \in SUBSET SummaryKeys } }

InitFormat ==
    /\ conversation_history = <<>>
    /\ chats = <<>>
    /\ cv_embeddings = <<>>
    /\ cvs = <<>>
    /\ embedding_model = 0
    /\ tasks = <<>>
    /\ saved = 0
    /\ calls = 0
    /\ call \in {[op |-> "input", cv_summary |-> r, rank |-> k] :
                    r \in SummaryRecords, k \in 1..MaxRank}

\* self.format_cv_summary(cv_summary, rank)
FormatCvSummary ==
    /\ call.op = "input"
    /\ LET out == format_cv_summary(call.cv_summary, call.rank)
       IN  call' = [op |-> "format_cv_summary", cv_summary |-> call.cv_summary,
                    rank |-> call.rank, raised |-> out.raised,
                    text |-> out.text]
    /\ UNCHANGED <<conversation_history, chats, cv_embeddings, cvs,
                   embedding_model, tasks, saved, calls>>

\* format_cv_for_prompt(cv_summary, rank)
FormatCvForPrompt ==
    /\ call.op = "input"
    /\ LET out == format_cv_for_prompt(call.cv_summary, call.rank)
       IN  call' = [op |-> "format_cv_for_prompt",
                    cv_summary |-> call.cv_summary,
                    rank |-> call.rank, raised |-> out.raised,
                    text |-> out.text]
    /\ UNCHANGED <<conversation_history, chats, cv_embeddings, cvs,
                   embedding_model, tasks, saved, calls>>

NextFormat ==
    \/ FormatCvSummary
    \/ FormatCvForPrompt

SpecFormat == InitFormat /\ [][NextFormat]_vars

-----------------------------------------------------------------------------
(* Format claim (C20), checked under SpecFormat                            *)

\* C20: format_cv_summary and format_cv_for_prompt return a string without
\* raising for every summary record, whichever of Name, Education,
\* Experience, Skills are missing and whatever JSON type each present field
\* has.
C20_FormattingTotal ==
    call.op \in {"format_cv_summary", "format_cv_for_prompt"}
        => ~call.raised

-----------------------------------------------------------------------------
(* Prompt composer: build_search_prompt and build_chat_prompt              *)

\* DatabaseManager.get_cv_by_id: the cvs row WHERE id = cv_id AND user_id =
\* uid, or None
get_cv_by_id(cv_rows, cv_id, uid) ==
    LET hits == {i \in DOMAIN cv_rows :
                    cv_rows[i].id = cv_id /\ cv_rows[i].user_id = uid}
    IN  IF hits = {} THEN PyNone
        ELSE PyDict(cv_rows[CHOOSE i \in hits : TRUE])

\* HRAssistant.load_cv_summary over vector_store.get_cv_full_summary: the
\* summary of the owner's profile cv_id, or None
load_cv_summary(cv_rows, cv_id, uid) ==
    LET cv_data == get_cv_by_id(cv_rows, cv_id, uid)
    IN  IF Truthy(cv_data) /\ Truthy(cv_data.fields.summary_json)
        THEN cv_data.fields.summary_json
        ELSE PyNone

\* build_search_prompt: the text before the query
\* "You are an HR assistant. Answer this question: "
TXT_SEARCH_INTRO == <<
    "Y","o","u"," ","a","r","e"," ","a","n"," ","H","R"," ","a","s","s",
    "i","s","t","a","n","t","."," ","A","n","s","w","e","r"," ","t","h",
    "i","s"," ","q","u","e","s","t","i","o","n",":"," " >>

\* build_search_prompt: the text after the query
\* "\nOnly use relevant candidate data. Ignore irrelevant information.\n\nCANDIDATES:\n"
TXT_SEARCH_RULES == <<
    "\n","O","n","l","y"," ","u","s","e"," ","r","e","l","e","v","a","n",
    "t"," ","c","a","n","d","i","d","a","t","e"," ","d","a","t","a",".",
    " ","I","g","n","o","r","e"," ","i","r","r","e","l","e","v","a","n",
    "t"," ","i","n","f","o","r","m","a","t","i","o","n",".","\n","\n","C",
    "A","N","D","I","D","A","T","E","S",":","\n" >>

\* build_search_prompt: the last line
\* "\nProvide direct, focused short answer only."
TXT_SEARCH_CLOSING == <<
    "\n","P","r","o","v","i","d","e"," ","d","i","r","e","c","t",","," ",
    "f","o","c","u","s","e","d"," ","s","h","o","r","t"," ","a","n","s",
    "w","e","r"," ","o","n","l","y","." >>

\* build_chat_prompt: the text before the query
\* "You are a helpful HR assistant. User said: '"
TXT_CHAT_INTRO == <<
    "Y","o","u"," ","a","r","e"," ","a"," ","h","e","l","p","f","u","l",
    " ","H","R"," ","a","s","s","i","s","t","a","n","t","."," ","U","s",
    "e","r"," ","s","a","i","d",":"," ","'" >>

\* build_chat_prompt: the text after the query
\* "'. Give a brief, friendly response."
TXT_CHAT_CLOSING == <<
    "'","."," ","G","i","v","e"," ","a"," ","b","r","i","e","f",","," ",
    "f","r","i","e","n","d","l","y"," ","r","e","s","p","o","n","s","e",
    "." >>

\* the loop of build_search_prompt with enumerate(cv_results): ranks
\* counted from 0
RECURSIVE CandidateBlocks_ZeroBased(_, _, _, _)
CandidateBlocks_ZeroBased(cv_rows, uid, cv_results, i) ==
    LET Block(cv_summary) ==
            IF Truthy(cv_summary) THEN format_cv_summary(cv_summary, i - 1)
            ELSE [raised |-> FALSE, text |-> <<>>]
        Both(block, rest) ==
            IF block.raised \/ rest.raised
            THEN [raised |-> TRUE, text |-> <<>>]
            ELSE [raised |-> FALSE, text |-> block.text \o rest.text]
    IN  IF i > Len(cv_results) THEN [raised |-> FALSE, text |-> <<>>]
        ELSE Both(Block(IF cv_results[i].cv_id # 0
                        THEN load_cv_summary(cv_rows, cv_results[i].cv_id, uid)
                        ELSE PyNone),
                  CandidateBlocks_ZeroBased(cv_rows, uid, cv_results, i + 1))

\* the loop of build_search_prompt over enumerate(cv_results, 1): the
\* candidate blocks, [raised, text]
RECURSIVE CandidateBlocks(_, _, _, _)
CandidateBlocks(cv_rows, uid, cv_results, i) ==
    LET Block(cv_summary) ==
            IF Truthy(cv_summary) THEN format_cv_summary(cv_summary, i)
            ELSE [raised |-> FALSE, text |-> <<>>]
        Both(block, rest) ==
            IF block.raised \/ rest.raised
            THEN [raised |-> TRUE, text |-> <<>>]
            ELSE [raised |-> FALSE, text |-> block.text \o rest.text]
    IN  IF i > Len(cv_results) THEN [raised |-> FALSE, text |-> <<>>]
        ELSE Both(Block(IF cv_results[i].cv_id # 0
                        THEN load_cv_summary(cv_rows, cv_results[i].cv_id, uid)
                        ELSE PyNone),
                  CandidateBlocks(cv_rows, uid, cv_results, i + 1))

\* build_search_prompt with the history context in every prompt
build_search_prompt_AlwaysContext(history, cv_rows, uid, user_query, cv_results) ==
    LET Prompt(blocks) ==
            IF blocks.raised THEN [raised |-> TRUE, text |-> <<>>]
            ELSE [raised |-> FALSE,
                  text |-> build_history_context(history)
                               \o TXT_SEARCH_INTRO \o user_query
                               \o TXT_SEARCH_RULES \o blocks.text
                               \o TXT_SEARCH_CLOSING]
    IN  Prompt(CandidateBlocks(cv_rows, uid, cv_results, 1))

\* HRAssistant.build_search_prompt: [raised, text]
build_search_prompt(history, cv_rows, uid, user_query, cv_results) ==
    LET context == IF needs_context(user_query)
                   THEN build_history_context(history)
                   ELSE <<>>
        Prompt(blocks) ==
            IF blocks.raised THEN [raised |-> TRUE, text |-> <<>>]
            ELSE [raised |-> FALSE,
                  text |-> context \o TXT_SEARCH_INTRO \o user_query
                               \o TXT_SEARCH_RULES \o blocks.text
                               \o TXT_SEARCH_CLOSING]
    IN  Prompt(CandidateBlocks(cv_rows, uid, cv_results, 1))

\* build_chat_prompt with the history context under needs_context only
build_chat_prompt_NeedsContext(history, user_query) ==
    (IF needs_context(user_query) THEN build_history_context(history) ELSE <<>>)
        \o TXT_CHAT_INTRO \o user_query \o TXT_CHAT_CLOSING

\* HRAssistant.build_chat_prompt
build_chat_prompt(history, user_query) ==
    (IF history # <<>> THEN build_history_context(history) ELSE <<>>)
        \o TXT_CHAT_INTRO \o user_query \o TXT_CHAT_CLOSING

-----------------------------------------------------------------------------
(* Orchestrator: HRAssistant.handle_cv_search, handle_chat, process_query  *)

\* an exception that leaves the function
PyRaise == [type |-> "raise"]

\* handle_cv_search with a result count that the history's length limits
handle_cv_search_HistoryTopK(history, rows, cv_rows, user_query, encoded, store_ok, ollama) ==
    LET Answer(did, prompt, gen) ==
            IF did.cv_results = <<>>
            THEN did @@ [ret |-> PyStr(MSG_NO_CVS), gen_called |-> FALSE,
                         prompt |-> <<>>]
            ELSE IF prompt.raised
            THEN did @@ [ret |-> PyRaise, gen_called |-> FALSE,
                         prompt |-> <<>>]
            ELSE IF gen.raised
            THEN did @@ [ret |-> PyStr(MSG_SEARCH_ERROR), gen_called |-> TRUE,
                         prompt |-> prompt.text]
            ELSE IF gen.text = <<>> \/ Strip(gen.text) = <<>>
            THEN did @@ [ret |-> PyStr(MSG_SEARCH_EMPTY), gen_called |-> TRUE,
                         prompt |-> prompt.text]
            ELSE did @@ [ret |-> PyTuple(<<PyStr(gen.text),
                                           PyList(did.cv_results)>>),
                         gen_called |-> TRUE, prompt |-> prompt.text]
        Found(top_k, cv_results) ==
            Answer([top_k |-> top_k, cv_results |-> cv_results],
                   build_search_prompt(history, cv_rows, user_id, user_query,
                                       cv_results),
                   run_llama(ollama))
        Search(top_k) ==
            Found(top_k, search_user_cvs(rows, cv_rows, user_id, user_query,
                                         encoded, top_k, store_ok))
    IN  Search(Min2(extract_cv_count(user_query), 2 - Len(history) \div 2))

\* handle_cv_search: the value it returns (a str, or the tuple (response,
\* cv_results) on its one successful path) and what it did on the way
handle_cv_search(history, rows, cv_rows, user_query, encoded, store_ok, ollama) ==
    LET Answer(did, prompt, gen) ==
            IF did.cv_results = <<>>
            THEN did @@ [ret |-> PyStr(MSG_NO_CVS), gen_called |-> FALSE,
                         prompt |-> <<>>]
            ELSE IF prompt.raised
            THEN did @@ [ret |-> PyRaise, gen_called |-> FALSE,
                         prompt |-> <<>>]
            ELSE IF gen.raised
            THEN did @@ [ret |-> PyStr(MSG_SEARCH_ERROR), gen_called |-> TRUE,
                         prompt |-> prompt.text]
            ELSE IF gen.text = <<>> \/ Strip(gen.text) = <<>>
            THEN did @@ [ret |-> PyStr(MSG_SEARCH_EMPTY), gen_called |-> TRUE,
                         prompt |-> prompt.text]
            ELSE did @@ [ret |-> PyTuple(<<PyStr(gen.text),
                                           PyList(did.cv_results)>>),
                         gen_called |-> TRUE, prompt |-> prompt.text]
        Found(top_k, cv_results) ==
            Answer([top_k |-> top_k, cv_results |-> cv_results],
                   build_search_prompt(history, cv_rows, user_id, user_query,
                                       cv_results),
                   run_llama(ollama))
        Search(top_k) ==
            Found(top_k, search_user_cvs(rows, cv_rows, user_id, user_query,
                                         encoded, top_k, store_ok))
    IN  Search(extract_cv_count(user_query))

\* simple_responses, in the dict's order
simple_responses == <<
    [key |-> <<"h","i">>, response |-> RESP_hi],
    [key |-> <<"h","e","l","l","o">>, response |-> RESP_hello],
    [key |-> <<"h","e","l","p">>, response |-> RESP_help],
    [key |-> <<"t","h","a","n","k","s">>, response |-> RESP_thanks],
    [key |-> <<"t","h","a","n","k"," ","y","o","u">>, response |-> RESP_thanks] >>

\* handle_chat without the simple_responses loop
handle_chat_NoShortCircuit(history, user_query, ollama) ==
    LET Reply(prompt, gen) ==
            IF gen.raised
            THEN [ret |-> MSG_CHAT_ERROR, gen_called |-> TRUE, prompt |-> prompt]
            ELSE IF gen.text = <<>> \/ Strip(gen.text) = <<>>
            THEN [ret |-> MSG_CHAT_EMPTY, gen_called |-> TRUE, prompt |-> prompt]
            ELSE [ret |-> gen.text, gen_called |-> TRUE, prompt |-> prompt]
    IN  Reply(build_chat_prompt(history, user_query), run_llama(ollama))

\* handle_chat: the str it returns, whether it called run_llama, and the
\* prompt it gave it
handle_chat(history, user_query, ollama) ==
    LET query_lower == Strip(Lower(user_query))
        Reply(hits, prompt, gen) ==
            IF hits # {}
            THEN [ret |-> simple_responses[CHOOSE i \in hits :
                                               \A j \in hits : i <= j].response,
                  gen_called |-> FALSE, prompt |-> <<>>]
            ELSE IF gen.raised
            THEN [ret |-> MSG_CHAT_ERROR, gen_called |-> TRUE, prompt |-> prompt]
            ELSE IF gen.text = <<>> \/ Strip(gen.text) = <<>>
            THEN [ret |-> MSG_CHAT_EMPTY, gen_called |-> TRUE, prompt |-> prompt]
            ELSE [ret |-> gen.text, gen_called |-> TRUE, prompt |-> prompt]
    IN  Reply({i \in DOMAIN simple_responses :
                  Contains(query_lower, simple_responses[i].key)},
              build_chat_prompt(history, user_query),
              run_llama(ollama))

\* response, cv_results = value: a tuple of two items unpacks, a str
\* unpacks into its characters when it has exactly two, and every other
\* value raises ValueError
Unpack2(v) ==
    IF v.type = "tuple" /\ Len(v.items) = 2
    THEN [ok |-> TRUE, first |-> v.items[1], second |-> v.items[2]]
    ELSE IF v.type = "str" /\ Len(v.s) = 2
    THEN [ok |-> TRUE, first |-> PyStr(<<v.s[1]>>), second |-> PyStr(<<v.s[2]>>)]
    ELSE [ok |-> FALSE]

\* sentence transformers the process can have loaded
EmbeddingModels == {0, 1}

\* a well-formed summary record
SummaryOf(name) ==
    PyDict([Name |-> PyStr(name),
            Skills |-> PyList(<<PyStr(<<"S","Q","L">>)>>)])

\* contents of tables cv_embeddings and cvs when the assistant is
\* constructed
StoredEmbeddings ==
    { <<EmbeddingRow(9, other_user_id, <<1, 0>>)>>,
      <<EmbeddingRow(1, user_id, <<3, 4>>)>>,
      <<EmbeddingRow(1, user_id, <<3, 4>>),
        EmbeddingRow(9, other_user_id, <<1, 0>>),
        EmbeddingRow(2, user_id, <<4, 3>>)>> }

StoredCvs ==
    << CvRow(1, user_id, FileName(1), CandidateName(1, user_id),
             SummaryOf(CandidateName(1, user_id)), "fully_processed"),
       CvRow(9, other_user_id, FileName(9), CandidateName(9, other_user_id),
             SummaryOf(CandidateName(9, other_user_id)), "fully_processed"),
       CvRow(2, user_id, FileName(2), CandidateName(2, user_id), PyNone,
             "fully_processed") >>

QueryTexts ==
    { <<" "," ">>,
      <<"h","i">>,
      <<"o","k"," ","t","h","e","n">>,
      <<"m","e"," ","t","o","o">>,
      <<"F","i","n","d"," ","3">>,
      <<"F","i","n","d"," ","m","o","r","e">>,
      <<"b","e","s","t">> }

\* process_query calls in one run of the model
MaxCalls == 1

Init ==
    /\ conversation_history = <<>>
    /\ chats = <<PersistedRow(1), OtherOwnerRow>>
    /\ cv_embeddings \in StoredEmbeddings
    /\ cvs = StoredCvs
    /\ embedding_model \in EmbeddingModels
    /\ tasks = <<>>
    /\ saved = 0
    /\ calls = 0
    /\ call = NoCall

BlankQueries == {q \in QueryTexts : Strip(q) = <<>>}
SearchQueries == {q \in QueryTexts \ BlankQueries : is_cv_search_query(q)}
ChatQueries == {q \in QueryTexts \ BlankQueries : ~is_cv_search_query(q)}

\* how the history load that ran just before this call ended, if one did
LoadBefore ==
    IF call.op # "_load_conversation_history" THEN "none"
    ELSE IF call.db_ok THEN "ok" ELSE "failed"

\* process_query on a blank query: no handler runs, nothing is recorded
ProcessBlankQueryOn(queries, max_calls) ==
    \E user_query \in queries :
        /\ calls < max_calls
        /\ calls' = calls + 1
        /\ call' = [op |-> "process_query", user_query |-> user_query,
                    handler |-> "none", outcome |-> "return",
                    value |-> MSG_ASK_SOMETHING, appended |-> FALSE,
                    load |-> LoadBefore]
        /\ UNCHANGED <<conversation_history, chats, saved, cv_embeddings, cvs,
                       embedding_model, tasks>>

\* process_query on a search query, with what the profile store, the
\* Ollama server and the chat log do during the call
ProcessSearchQueryOn(queries, outcomes, max_calls) ==
    \E user_query \in queries, store_ok \in BOOLEAN, ollama \in outcomes :
        LET Trace(h) ==
                [op |-> "process_query", user_query |-> user_query,
                 handler |-> "search", retrieved |-> TRUE,
                 store_ok |-> store_ok,
                 gen_called |-> h.gen_called,
                 ollama |-> IF h.gen_called THEN ollama
                            ELSE [kind |-> "unused"],
                 top_k |-> h.top_k,
                 searched |-> h.cv_results,
                 prompt |-> h.prompt,
                 load |-> LoadBefore]
            Finish(trace, u) ==
                /\ calls < max_calls
                /\ calls' = calls + 1
                /\ IF u.ok
                   THEN \E save_ok \in BOOLEAN :
                        /\ conversation_history' =
                               HistoryAfterAdd(conversation_history,
                                               user_query, u.first.s)
                        /\ chats' = ChatsAfterAdd(chats, user_query, u.first.s,
                                                  u.second, save_ok)
                        /\ call' = trace @@ [outcome |-> "return",
                                             value |-> u.first.s,
                                             appended |-> TRUE,
                                             save_ok |-> save_ok]
                   ELSE /\ UNCHANGED <<conversation_history, chats>>
                        /\ call' = trace @@ [outcome |-> "raise",
                                             value |-> <<>>,
                                             appended |-> FALSE]
                /\ saved' = saved + Len(chats') - Len(chats)
                /\ UNCHANGED <<cv_embeddings, cvs, embedding_model, tasks>>
            Step(h) == Finish(Trace(h), Unpack2(h.ret))
        IN  Step(handle_cv_search(conversation_history, cv_embeddings, cvs,
                                  user_query,
                                  encode(embedding_model, user_query),
                                  store_ok, ollama))

\* process_query on a chat query
ProcessChatQueryOn(queries, outcomes, max_calls) ==
    \E user_query \in queries, ollama \in outcomes, save_ok \in BOOLEAN :
        LET Step(h) ==
                /\ calls < max_calls
                /\ calls' = calls + 1
                /\ conversation_history' =
                       HistoryAfterAdd(conversation_history, user_query, h.ret)
                /\ chats' = ChatsAfterAdd(chats, user_query, h.ret, PyNone,
                                          save_ok)
                /\ call' = [op |-> "process_query", user_query |-> user_query,
                            handler |-> "chat", retrieved |-> FALSE,
                            gen_called |-> h.gen_called,
                            ollama |-> IF h.gen_called THEN ollama
                                       ELSE [kind |-> "unused"],
                            prompt |-> h.prompt,
                            load |-> LoadBefore,
                            outcome |-> "return", value |-> h.ret,
                            appended |-> TRUE, save_ok |-> save_ok]
                /\ saved' = saved + Len(chats') - Len(chats)
                /\ UNCHANGED <<cv_embeddings, cvs, embedding_model, tasks>>
        IN  Step(handle_chat(conversation_history, user_query, ollama))

ProcessBlankQuery == ProcessBlankQueryOn(BlankQueries, MaxCalls)

ProcessSearchQuery ==
    ProcessSearchQueryOn(SearchQueries, OllamaOutcomes, MaxCalls)

ProcessChatQuery == ProcessChatQueryOn(ChatQueries, OllamaOutcomes, MaxCalls)

\* HRAssistant.process_query
ProcessQuery ==
    \/ ProcessBlankQuery
    \/ ProcessSearchQuery
    \/ ProcessChatQuery

\* await assistant.initialize()
Initialize == LoadConversationHistory

Next ==
    \/ Initialize
    \/ ProcessQuery

Spec == Init /\ [][Next]_vars

-----------------------------------------------------------------------------
(* Orchestrator claims (C3, C4, C5, C6, C10), checked under Spec           *)

\* the history ends with the exchange (user_message, assistant_response)
EndsWithExchange(history, user_message, assistant_response) ==
    /\ Len(history) >= 2
    /\ history[Len(history) - 1] = UserTurn(user_message)
    /\ history[Len(history)] = AssistantTurn(assistant_response)

IsBlank(text) == \A i \in DOMAIN text : text[i] \in Whitespace

\* C3: a search query of an owner with zero stored vectors returns the
\* fixed "no matches" message, and the exchange is appended to the history.
C3_NoMatchesRecorded ==
    (/\ call.op = "process_query"
     /\ call.handler = "search"
     /\ call.store_ok
     /\ ~ \E i \in DOMAIN cv_embeddings : cv_embeddings[i].user_id = user_id)
        => /\ call.outcome = "return"
           /\ call.value = MSG_NO_CVS
           /\ EndsWithExchange(conversation_history, call.user_query, MSG_NO_CVS)

\* C4: when the generator returns empty or whitespace-only text,
\* process_query returns a fixed non-empty fallback message, for search and
\* chat queries alike, and the exchange is appended to the history.
C4_EmptyOutputFallback ==
    (/\ call.op = "process_query"
     /\ call.handler \in {"search", "chat"}
     /\ call.gen_called
     /\ call.ollama.kind = "ok"
     /\ IsBlank(call.ollama.response))
        => /\ call.outcome = "return"
           /\ call.value \in {MSG_SEARCH_EMPTY, MSG_CHAT_EMPTY}
           /\ EndsWithExchange(conversation_history, call.user_query, call.value)

\* C5: when the generator fails (server unavailable, timeout, model not
\* found, malformed response), process_query returns and records a fixed
\* apologetic message, not the generator's own failure text.
C5_GeneratorFailureMessage ==
    (/\ call.op = "process_query"
     /\ call.handler \in {"search", "chat"}
     /\ call.gen_called
     /\ call.ollama.kind \in GeneratorFailures)
        => /\ call.outcome = "return"
           /\ call.value \in {MSG_SEARCH_ERROR, MSG_CHAT_ERROR}
           /\ EndsWithExchange(conversation_history, call.user_query, call.value)

\* C6: process_query on a non-blank query returns a response string and
\* never raises, whatever its collaborators do.
C6_NeverRaises ==
    (call.op = "process_query" /\ ~IsBlank(call.user_query))
        => call.outcome = "return"

\* some keyword of the table occurs in the lower-cased text
KeywordHit(text) ==
    \E k \in DOMAIN keywords :
        \E i \in 1..Len(text) :
            /\ i + Len(keywords[k]) - 1 <= Len(text)
            /\ \A j \in 1..Len(keywords[k]) :
                   LowerChar(text[i + j - 1]) = keywords[k][j]

RoutedByKeyword ==
    /\ KeywordHit(call.user_query) => call.handler = "search"
    /\ ~KeywordHit(call.user_query) =>
           (call.handler = "chat" /\ ~call.retrieved)

\* C10 as stated: process_query routes every query whose lower-cased text
\* contains a keyword to the search handler and every other query to the
\* chat handler, which retrieves nothing.
C10_RoutesByKeyword ==
    call.op = "process_query" => RoutedByKeyword

\* C10 amended: the same for every non-blank query; a blank query, which
\* contains no keyword, reaches no handler at all.
C10_RoutesNonBlankByKeyword ==
    call.op = "process_query" =>
        IF IsBlank(call.user_query)
        THEN ~KeywordHit(call.user_query) /\ call.handler = "none"
        ELSE RoutedByKeyword

\* a query whose keyword is found only after lower-casing ("Find 3") went
\* to the search handler, which retrieved
C10_Witness ==
    /\ call.op = "process_query"
    /\ call.handler = "search"
    /\ call.retrieved
    /\ KeywordHit(call.user_query)
    /\ ~ContainsAny(call.user_query, keywords)

-----------------------------------------------------------------------------
(* Prompt and load claims (C15, C17, C18), checked under Spec              *)

StartsWith(text, prefix) ==
    /\ Len(text) >= Len(prefix)
    /\ SubSeq(text, 1, Len(prefix)) = prefix

\* this step is a process_query call whose handler called the generator
GeneratorStep ==
    /\ calls' = calls + 1
    /\ call'.handler # "none"
    /\ call'.gen_called

\* C15: a failing load of the persisted chat log does not raise: the
\* in-memory history becomes empty, and a later process_query call on that
\* assistant works as on an assistant without history.
C15_LoadFailureNotFatal ==
    /\ []((call.op = "_load_conversation_history" /\ ~call.db_ok)
              => conversation_history = <<>>)
    /\ [][(/\ call.op = "_load_conversation_history"
           /\ ~call.db_ok
           /\ calls' = calls + 1
           /\ call'.handler # "none")
              => /\ call'.handler = "chat" => call'.outcome = "return"
                 /\ call'.outcome = "return" =>
                        conversation_history' =
                            <<UserTurn(call'.user_query),
                              AssistantTurn(call'.value)>>]_vars

\* a chat query answered by the generator right after a failed load
C15_Witness ==
    /\ call.op = "process_query"
    /\ call.load = "failed"
    /\ call.handler = "chat"
    /\ call.gen_called
    /\ call.outcome = "return"
    /\ call.prompt = TXT_CHAT_INTRO \o call.user_query \o TXT_CHAT_CLOSING
    /\ Len(conversation_history) = 2

\* C17: the prompt of a search query starts with the rendered history
\* context only if needs_context(query) is true; the prompt of a chat query
\* starts with the rendered history context whenever the history is
\* non-empty, whatever needs_context says.
C17_HistoryInjection ==
    [][GeneratorStep =>
          LET context == build_history_context(conversation_history)
              query == call'.user_query
          IN  IF call'.handler = "search"
              THEN IF needs_context(query)
                   THEN StartsWith(call'.prompt,
                                   context \o TXT_SEARCH_INTRO \o query)
                   ELSE StartsWith(call'.prompt, TXT_SEARCH_INTRO \o query)
              ELSE IF conversation_history # <<>>
                   THEN StartsWith(call'.prompt,
                                   context \o TXT_CHAT_INTRO \o query)
                   ELSE StartsWith(call'.prompt, TXT_CHAT_INTRO \o query)]_vars

\* a search query with a referential marker, asked with a loaded history:
\* its prompt starts with the context
C17_Witness ==
    /\ call.op = "process_query"
    /\ call.handler = "search"
    /\ call.gen_called
    /\ needs_context(call.user_query)
    /\ call.appended
    /\ Len(conversation_history) >= 4
    /\ StartsWith(call.prompt, TXT_PREVIOUS_CONVERSATION)

\* C18 as stated: a chat query that contains no referential marker gets a
\* chat prompt without history context.
C18_ChatContextByPredicate ==
    (/\ call.op = "process_query"
     /\ call.handler = "chat"
     /\ call.gen_called
     /\ ~needs_context(call.user_query))
        => StartsWith(call.prompt, TXT_CHAT_INTRO)

\* C18: needs_context plays no part in a chat prompt: the prompt of a chat
\* query carries the history context exactly when the history is non-empty.
C18_ChatContextByHistory ==
    [][(GeneratorStep /\ call'.handler = "chat")
          => (StartsWith(call'.prompt, TXT_PREVIOUS_CONVERSATION)
                  <=> conversation_history # <<>>)]_vars

\* a chat query without referential marker whose prompt carries the context
C18_Witness ==
    /\ call.op = "process_query"
    /\ call.handler = "chat"
    /\ call.gen_called
    /\ ~needs_context(call.user_query)
    /\ StartsWith(call.prompt, TXT_PREVIOUS_CONVERSATION)

-----------------------------------------------------------------------------
(* Repeat specification: the same query asked again                        *)

\* process_query calls in one run of the repeat specification
MaxRepeats == 2

RepeatQueries ==
    { <<"o","k"," ","t","h","e","n">>,
      <<"F","i","n","d"," ","m","o","r","e">>,
      <<"b","e","s","t">> }

RepeatOutcomes ==
    { [kind |-> "ok", response |-> <<"A","n","n","a"," ","f","i","t","s",".">>],
      [kind |-> "down"] }

InitRepeat ==
    /\ conversation_history = <<>>
    /\ chats = <<PersistedRow(1), OtherOwnerRow>>
    /\ cv_embeddings \in StoredEmbeddings
    /\ cvs = StoredCvs
    /\ embedding_model \in EmbeddingModels
    /\ tasks = <<>>
    /\ saved = 0
    /\ calls = 0
    /\ call = NoCall

RepeatSearchQuery ==
    ProcessSearchQueryOn({q \in RepeatQueries : is_cv_search_query(q)},
                         RepeatOutcomes, MaxRepeats)

RepeatChatQuery ==
    ProcessChatQueryOn({q \in RepeatQueries : ~is_cv_search_query(q)},
                       RepeatOutcomes, MaxRepeats)

NextRepeat ==
    \/ Initialize
    \/ RepeatSearchQuery
    \/ RepeatChatQuery

SpecRepeat == InitRepeat /\ [][NextRepeat]_vars

-----------------------------------------------------------------------------
(* Idempotence claim (C11), checked under SpecRepeat                       *)

\* C11: a process_query run that repeats the query of the run before it,
\* which appended its exchange to the history, has the same intent, the
\* same result_count and the same ranked results (the profile store is
\* unchanged and readable in both runs).
C11_RepeatedQuery ==
    [][(/\ call.op = "process_query"
        /\ call.appended
        /\ calls' = calls + 1
        /\ call'.user_query = call.user_query
        /\ call'.handler = "search" => call'.store_ok)
          => /\ call'.handler = call.handler
             /\ call.handler = "search" =>
                    /\ call'.top_k = call.top_k
                    /\ call'.searched = call.searched]_vars

\* the second of two runs of one search query that ranked two profiles
C11_Witness ==
    /\ call.op = "process_query"
    /\ calls = 2
    /\ call.handler = "search"
    /\ call.appended
    /\ Len(call.searched) = 2
    /\ call.searched[1].similarity > call.searched[2].similarity
    /\ Len(conversation_history) >= 4
    /\ conversation_history[Len(conversation_history) - 3]
           = UserTurn(call.user_query)

-----------------------------------------------------------------------------
(* Profile store operations of main.upload_file and main.delete_file       *)

\* DatabaseManager.get_cv_by_filename: the owner's cvs row of that file
\* name, or None
get_cv_by_filename(cv_rows, uid, filename) ==
    LET hits == {i \in DOMAIN cv_rows :
                    cv_rows[i].user_id = uid /\ cv_rows[i].filename = filename}
    IN  IF hits = {} THEN PyNone
        ELSE PyDict(cv_rows[CHOOSE i \in hits : TRUE])

\* the id the cvs sequence gives the next row
NextCvId(cv_rows) ==
    LET ids == {cv_rows[i].id : i \in DOMAIN cv_rows}
    IN  IF ids = {} THEN 1
        ELSE 1 + CHOOSE m \in ids : \A x \in ids : x <= m

\* DatabaseManager.create_cv
create_cv(cv_rows, uid, filename) ==
    Append(cv_rows, CvRow(NextCvId(cv_rows), uid, filename, <<>>, PyNone,
                          "uploaded"))

\* DatabaseManager.update_cv: UPDATE cvs SET key = value for every keyword
\* argument whose value is not None, WHERE id = cv_id; columns
\* candidate_name and processing_status hold the text of the str
update_cv(cv_rows, cv_id, kwargs) ==
    LET set_clauses == {k \in DOMAIN kwargs : kwargs[k].type # "NoneType"}
        changes == [k \in set_clauses |->
                       IF k \in {"candidate_name", "processing_status"}
                       THEN kwargs[k].s ELSE kwargs[k]]
    IN  [i \in DOMAIN cv_rows |->
            IF cv_rows[i].id = cv_id THEN changes @@ cv_rows[i]
            ELSE cv_rows[i]]

\* the keyword arguments with which upload_file resets a record
ResetKwargs ==
    [original_text |-> PyNone, summary_json |-> PyNone,
     candidate_name |-> PyNone, processing_status |-> PyStr("uploading")]

\* the keyword arguments with which upload_file stores a summary
SummaryKwargs(cv_summary, status) ==
    [summary_json |-> cv_summary,
     candidate_name |-> DictGetOr(cv_summary, "Name",
                                  PyStr(<<"U","n","k","n","o","w","n">>)),
     processing_status |-> PyStr(status)]

StatusKwargs(status) == [processing_status |-> PyStr(status)]

\* DatabaseManager.save_cv_embedding
save_cv_embedding(rows, cv_id, uid, embedding) ==
    Append(rows, EmbeddingRow(cv_id, uid, embedding))

\* DatabaseManager.delete_cv_embeddings: WHERE cv_id AND user_id
delete_cv_embeddings(rows, cv_id, uid) ==
    SelectSeq(rows, LAMBDA e : ~(e.cv_id = cv_id /\ e.user_id = uid))

\* DatabaseManager.delete_cv: the cvs rows left, WHERE id AND user_id
delete_cv(cv_rows, cv_id, uid) ==
    SelectSeq(cv_rows, LAMBDA c : ~(c.id = cv_id /\ c.user_id = uid))

-----------------------------------------------------------------------------
(* Owners specification: requests of two owners on the shared tables       *)

\* requests in one run of the owners specification
MaxRequests == 3

\* rows of table cvs in the owners specification
MaxCvs == 3

\* what the owner asks, which names the owner
QueryOf(uid) ==
    IF uid = user_id THEN <<"F","i","n","d"," ","A">>
    ELSE <<"F","i","n","d"," ","Z">>

OwnerFiles == { FileName(1), FileName(2) }

OwnerTopK == {1, MaxCvCount}

\* the vector of the profile an owner uploads
UploadedVector(uid) == IF uid = user_id THEN <<0, 5>> ELSE <<4, 3>>

OwnerChatRow(uid) ==
    [user_id |-> uid, query |-> QueryOf(uid), query_type |-> "cv_search",
     response_text |-> <<"o","k">>, cv_results |-> PyNone]

InitOwners ==
    /\ conversation_history = <<>>
    /\ chats = <<OwnerChatRow(user_id), OwnerChatRow(other_user_id)>>
    /\ cv_embeddings = <<EmbeddingRow(1, user_id, <<3, 4>>),
                         EmbeddingRow(2, other_user_id, <<4, 3>>)>>
    /\ cvs = <<CvRow(1, user_id, FileName(1), CandidateName(1, user_id),
                     SummaryOf(CandidateName(1, user_id)), "fully_processed"),
               CvRow(2, other_user_id, FileName(1),
                     CandidateName(2, other_user_id),
                     SummaryOf(CandidateName(2, other_user_id)),
                     "fully_processed")>>
    /\ embedding_model = 0
    /\ tasks = <<>>
    /\ saved = 0
    /\ calls = 0
    /\ call = NoCall

\* GET /query of owner uid: a new assistant loads the owner's history,
\* ranks the owner's profiles, loads their summaries for the prompt, and
\* the exchange is saved
QueryCvs ==
    \E uid \in Owners, top_k \in OwnerTopK :
        LET Request(loaded, results) ==
                /\ conversation_history' =
                       HistoryAfterAdd(loaded, QueryOf(uid), <<"o","k">>)
                /\ chats' = Append(chats, OwnerChatRow(uid))
                /\ call' = [op |-> "query_cvs", user_id |-> uid,
                            loaded |-> loaded, results |-> results,
                            summaries |->
                                [i \in DOMAIN results |->
                                    load_cv_summary(cvs, results[i].cv_id, uid)]]
        IN  /\ calls < MaxRequests
            /\ calls' = calls + 1
            /\ Request(KeepRecent(TurnsOf(Reversed(
                           get_user_chats(chats, uid, max_history_length)))),
                       search_user_cvs(cv_embeddings, cvs, uid, QueryOf(uid),
                                       encode(embedding_model, QueryOf(uid)),
                                       top_k, TRUE))
            /\ UNCHANGED <<cv_embeddings, cvs, embedding_model, tasks, saved>>

\* POST /api/upload of owner uid; summarized: extraction and summarization
\* of the file succeeded
UploadFile ==
    \E uid \in Owners, filename \in OwnerFiles, summarized \in BOOLEAN :
        LET Pipeline(cv_id, cv_rows, rows) ==
                /\ cvs' = IF summarized
                          THEN update_cv(cv_rows, cv_id,
                                   SummaryKwargs(
                                       SummaryOf(CandidateName(cv_id, uid)),
                                       "fully_processed"))
                          ELSE update_cv(cv_rows, cv_id,
                                         StatusKwargs("upload_only"))
                /\ cv_embeddings' =
                       IF summarized
                       THEN save_cv_embedding(rows, cv_id, uid,
                                              UploadedVector(uid))
                       ELSE rows
                /\ call' = [op |-> "upload_file", user_id |-> uid,
                            cv_id |-> cv_id]
            Upload(existing_cv) ==
                IF ~Truthy(existing_cv)
                THEN /\ Len(cvs) < MaxCvs
                     /\ Pipeline(NextCvId(cvs), create_cv(cvs, uid, filename),
                                 cv_embeddings)
                ELSE IF existing_cv.fields.processing_status = "fully_processed"
                THEN /\ UNCHANGED <<cvs, cv_embeddings>>
                     /\ call' = [op |-> "upload_file", user_id |-> uid,
                                 cv_id |-> existing_cv.fields.id]
                ELSE Pipeline(existing_cv.fields.id,
                              update_cv(cvs, existing_cv.fields.id, ResetKwargs),
                              delete_cv_embeddings(cv_embeddings,
                                                   existing_cv.fields.id, uid))
        IN  /\ calls < MaxRequests
            /\ calls' = calls + 1
            /\ Upload(get_cv_by_filename(cvs, uid, filename))
            /\ UNCHANGED <<conversation_history, chats, embedding_model, tasks, saved>>

\* DELETE /api/files/{cv_id} of owner uid: 404 unless the owner has that
\* profile
DeleteFile ==
    \E uid \in Owners, cv_id \in 1..(MaxCvs + 1) :
        /\ calls < MaxRequests
        /\ calls' = calls + 1
        /\ IF Truthy(get_cv_by_id(cvs, cv_id, uid))
           THEN /\ cv_embeddings' = delete_cv_embeddings(cv_embeddings, cv_id, uid)
                /\ cvs' = delete_cv(cvs, cv_id, uid)
           ELSE UNCHANGED <<cv_embeddings, cvs>>
        /\ call' = [op |-> "delete_file", user_id |-> uid, cv_id |-> cv_id,
                    found |-> Truthy(get_cv_by_id(cvs, cv_id, uid))]
        /\ UNCHANGED <<conversation_history, chats, embedding_model, tasks, saved>>

NextOwners ==
    \/ QueryCvs
    \/ UploadFile
    \/ DeleteFile

SpecOwners == InitOwners /\ [][NextOwners]_vars

-----------------------------------------------------------------------------
(* Isolation claim (C14), checked under SpecOwners                         *)

\* the rows of a table that belong to other owners than uid
RowsOfOthers(rows, uid) == SelectSeq(rows, LAMBDA r : r.user_id # uid)

\* C14: every ranked result, every profile summary placed in a prompt and
\* every history turn loaded for an owner comes from a record of that
\* owner, and no request of an owner changes a vector, a profile or a chat
\* turn of another owner.
C14_OwnerIsolation ==
    /\ [](call.op = "query_cvs" =>
            /\ \A i \in DOMAIN call.results :
                   /\ \E j \in DOMAIN cv_embeddings :
                          /\ cv_embeddings[j].cv_id = call.results[i].cv_id
                          /\ cv_embeddings[j].user_id = call.user_id
                   /\ \A j \in DOMAIN cvs :
                          cvs[j].id = call.results[i].cv_id
                              => cvs[j].user_id = call.user_id
                   /\ call.results[i].candidate_name
                          = CandidateName(call.results[i].cv_id, call.user_id)
            /\ \A i \in DOMAIN call.summaries :
                   Truthy(call.summaries[i]) =>
                       \E j \in DOMAIN cvs :
                           /\ cvs[j].user_id = call.user_id
                           /\ cvs[j].id = call.results[i].cv_id
                           /\ cvs[j].summary_json = call.summaries[i]
                           /\ call.summaries[i].fields.Name.s[1]
                                  = CandidateName(1, call.user_id)[1]
            /\ \A i \in DOMAIN call.loaded :
                   call.loaded[i].role = "user"
                       => call.loaded[i].content = QueryOf(call.user_id))
    /\ [][calls' = calls + 1 =>
              /\ RowsOfOthers(cv_embeddings', call'.user_id)
                     = RowsOfOthers(cv_embeddings, call'.user_id)
              /\ RowsOfOthers(cvs', call'.user_id)
                     = RowsOfOthers(cvs, call'.user_id)
              /\ RowsOfOthers(chats', call'.user_id)
                     = RowsOfOthers(chats, call'.user_id)]_vars

\* a query of an owner that ranked two profiles of that owner and loaded
\* two exchanges, in a store that holds a profile and an exchange of the
\* other owner
C14_Witness ==
    /\ call.op = "query_cvs"
    /\ Len(call.results) = 2
    /\ Truthy(call.summaries[1])
    /\ Len(call.loaded) = 4
    /\ \E j \in DOMAIN cv_embeddings : cv_embeddings[j].user_id # call.user_id
    /\ \E j \in DOMAIN chats : chats[j].user_id # call.user_id

-----------------------------------------------------------------------------
(* Greeting specification: chat queries around the simple_responses keys   *)

\* process_query calls in one run of the greeting specification
MaxGreetings == 2

\* the keys of simple_responses
GreetingPhrases == {simple_responses[i].key : i \in DOMAIN simple_responses}

GreetingQueries ==
    GreetingPhrases
    \cup { <<"H","e","l","l","o">>,
           <<"w","h","i","c","h">>,
           <<"n","o","t","h","i","n","g">>,
           <<"o","k"," ","t","h","e","n">> }

InitGreeting ==
    /\ conversation_history = <<>>
    /\ chats = <<PersistedRow(1), OtherOwnerRow>>
    /\ cv_embeddings = <<EmbeddingRow(1, user_id, <<3, 4>>)>>
    /\ cvs = StoredCvs
    /\ embedding_model = 0
    /\ tasks = <<>>
    /\ saved = 0
    /\ calls = 0
    /\ call = NoCall

GreetingChatQuery ==
    ProcessChatQueryOn({q \in GreetingQueries : ~is_cv_search_query(q)},
                       OllamaOutcomes, MaxGreetings)

NextGreeting ==
    \/ Initialize
    \/ GreetingChatQuery

SpecGreeting == InitGreeting /\ [][NextGreeting]_vars

-----------------------------------------------------------------------------
(* Short-circuit claims (C22, C28), checked under SpecGreeting             *)

\* the response the table gives for a phrase
CannedResponse(phrase) ==
    CASE phrase = <<"h","i">>                 -> RESP_hi
      [] phrase = <<"h","e","l","l","o">>     -> RESP_hello
      [] phrase = <<"h","e","l","p">>         -> RESP_help
      [] OTHER                                -> RESP_thanks

\* C22: a process_query call whose query is one of the phrases hi, hello,
\* help, thanks, thank you returns the canned response of that phrase,
\* composes no prompt and does not invoke the Response Generator.
C22_GreetingShortCircuit ==
    (/\ call.op = "process_query"
     /\ Lower(call.user_query) \in GreetingPhrases)
        => /\ call.handler = "chat"
           /\ call.outcome = "return"
           /\ call.value = CannedResponse(Lower(call.user_query))
           /\ ~call.gen_called
           /\ call.prompt = <<>>
           /\ call.ollama.kind = "unused"

\* the phrase thank you answered from the table on an assistant that
\* already recorded an exchange
C22_Witness ==
    /\ call.op = "process_query"
    /\ calls = 2
    /\ call.user_query = <<"t","h","a","n","k"," ","y","o","u">>
    /\ call.value = RESP_thanks
    /\ ~call.gen_called

\* C28: a chat query is answered from the table, without a Response
\* Generator call, only when the query itself is one of the phrases.
C28_CannedOnlyForPhrases ==
    (/\ call.op = "process_query"
     /\ call.handler = "chat"
     /\ ~call.gen_called)
        => Strip(Lower(call.user_query)) \in GreetingPhrases

-----------------------------------------------------------------------------
(* Recording claims (C23, C25), checked under Spec                         *)

\* C23: every row a process_query call writes to the chat log has query_type
\* cv_search exactly when the call was handled as a search; the row of a
\* search holds the ranked results of that search and the row of a chat
\* holds no results.
C23_LogTaggedByIntent ==
    [][(calls' = calls + 1 /\ chats' # chats) =>
          /\ Len(chats') = Len(chats) + 1
          /\ SubSeq(chats', 1, Len(chats)) = chats
          /\ chats'[Len(chats')].user_id = user_id
          /\ chats'[Len(chats')].query = call'.user_query
          /\ (chats'[Len(chats')].query_type = "cv_search")
                 = (call'.handler = "search")
          /\ (chats'[Len(chats')].query_type = "general_chat")
                 = (call'.handler = "chat")
          /\ call'.handler = "search" =>
                 /\ call'.searched # <<>>
                 /\ chats'[Len(chats')].cv_results = PyList(call'.searched)
          /\ call'.handler = "chat" =>
                 chats'[Len(chats')].cv_results = PyNone]_vars

\* a search that ranked two profiles and whose exchange was written to
\* the log
C23_Witness ==
    /\ call.op = "process_query"
    /\ call.handler = "search"
    /\ call.outcome = "return"
    /\ call.save_ok
    /\ Len(call.searched) = 2
    /\ chats[Len(chats)].query_type = "cv_search"
    /\ chats[Len(chats)].cv_results = PyList(call.searched)
    /\ saved = 1

\* C25: a process_query call on a non-blank query that returns appends the
\* user turn of the query and then the assistant turn of the returned
\* response, and nothing else, to the history it found (trimmed to the last
\* 2 * max_history_length turns).
C25_ExchangeAppended ==
    [][(/\ calls' = calls + 1
        /\ call'.op = "process_query"
        /\ call'.handler # "none"
        /\ call'.outcome = "return")
          => /\ conversation_history'
                    = KeepRecent(conversation_history
                                     \o <<UserTurn(call'.user_query),
                                          AssistantTurn(call'.value)>>)
             /\ Len(conversation_history') = Len(conversation_history) + 2
             /\ call'.appended]_vars

\* a search answered by the generator on an assistant that had loaded one
\* exchange
C25_Witness ==
    /\ call.op = "process_query"
    /\ call.handler = "search"
    /\ call.outcome = "return"
    /\ call.gen_called
    /\ call.load = "ok"
    /\ Len(conversation_history) = 4
    /\ conversation_history[3] = UserTurn(call.user_query)
    /\ conversation_history[4] = AssistantTurn(call.value)

-----------------------------------------------------------------------------
(* Prompt specification: build_search_prompt over ranked results           *)

\* profiles of the owner in the stores of the prompt specification
MaxProfiles == 3

\* the cvs rows of n summarized profiles of the owner
PromptCvs(n) ==
    [i \in 1..n |->
        CvRow(i, user_id, FileName(i), CandidateName(i, user_id),
              SummaryOf(CandidateName(i, user_id)), "fully_processed")]

\* the stores of n embeddings, one per profile
PromptStores(n) ==
    { [i \in 1..n |-> EmbeddingRow(i, user_id, vec[i])] :
        vec \in [1..n -> RankVectors] }

PromptQueries ==
    { <<"F","i","n","d"," ","3">>,
      <<"F","i","n","d"," ","m","o","r","e">> }

PromptHistories ==
    { <<>>,
      <<UserTurn(<<"h","i">>), AssistantTurn(<<"o","k">>)>> }

InitPrompt ==
    /\ conversation_history \in PromptHistories
    /\ chats = <<>>
    /\ \E n \in 1..MaxProfiles :
           /\ cvs = PromptCvs(n)
           /\ cv_embeddings \in PromptStores(n)
    /\ embedding_model = 0
    /\ tasks = <<>>
    /\ saved = 0
    /\ calls = 0
    /\ call = NoCall

\* the rows of cvs that load_cv_summary can still read: between the search
\* and the loop of build_search_prompt the profiles in lost were deleted,
\* or get_cv_by_id raises for them (load_cv_summary then returns None)
ReadableCvs(cv_rows, lost) == SelectSeq(cv_rows, LAMBDA c : c.id \notin lost)

\* the search of handle_cv_search followed by build_search_prompt
BuildSearchPrompt ==
    \E user_query \in PromptQueries, top_k \in 1..MaxProfiles,
       lost \in SUBSET (1..MaxProfiles) :
        LET Composed(cv_results, prompt) ==
                call' = [op |-> "build_search_prompt",
                         user_query |-> user_query,
                         cv_results |-> cv_results,
                         lost |-> lost,
                         raised |-> prompt.raised,
                         prompt |-> prompt.text]
            Found(cv_results) ==
                Composed(cv_results,
                         build_search_prompt(conversation_history,
                                             ReadableCvs(cvs, lost), user_id,
                                             user_query, cv_results))
        IN  /\ call.op = "none"
            /\ Found(search_user_cvs(cv_embeddings, cvs, user_id, user_query,
                                     encode(embedding_model, user_query),
                                     top_k, TRUE))
            /\ UNCHANGED <<conversation_history, chats, cv_embeddings, cvs,
                           embedding_model, tasks, saved, calls>>

NextPrompt == BuildSearchPrompt

SpecPrompt == InitPrompt /\ [][NextPrompt]_vars

-----------------------------------------------------------------------------
(* Candidate block claim (C21), checked under SpecPrompt                   *)

\* where the headings "CANDIDATE <digit>:" of candidate blocks start
BlockStarts(text) ==
    {p \in 1..(Len(text) - 11) :
        /\ SubSeq(text, p, p + 9) = <<"C","A","N","D","I","D","A","T","E"," ">>
        /\ IsDigit(text[p + 10])
        /\ text[p + 11] = ":"}

\* the ranks in the headings of the blocks, in the order of the text
BlockLabels(text) ==
    [k \in 1..Cardinality(BlockStarts(text)) |->
        LET p == CHOOSE q \in BlockStarts(text) :
                     Cardinality({r \in BlockStarts(text) : r <= q}) = k
        IN  ParseInt(<<text[p + 10]>>)]

\* the candidate names on the "Name: " lines, in the order of the text
BlockNames(text) ==
    [k \in 1..Cardinality(BlockStarts(text)) |->
        LET p == CHOOSE q \in BlockStarts(text) :
                     Cardinality({r \in BlockStarts(text) : r <= q}) = k
        IN  SubSeq(text, p + 19, p + 20)]

\* the ranks of the results whose summary was loaded
LoadedRanks ==
    SelectSeq([i \in 1..Len(call.cv_results) |-> i],
              LAMBDA i : call.cv_results[i].cv_id \notin call.lost)

\* C21 as stated: the search prompt contains the query text and one
\* candidate block per ranked result, block i labelled with rank i.
C21_BlockPerResult ==
    (call.op = "build_search_prompt" /\ ~call.raised) =>
        /\ Contains(call.prompt, call.user_query)
        /\ BlockLabels(call.prompt) = [i \in 1..Len(call.cv_results) |-> i]

\* C21, amended: the search prompt contains the query text and one
\* candidate block for each ranked result whose summary could be loaded,
\* in rank order, each labelled with the rank of its result and showing the
\* name of that result; a result without a loadable summary has no block,
\* and the ranks of the other blocks are not renumbered.
C21_BlockPerLoadedResult ==
    (call.op = "build_search_prompt" /\ ~call.raised) =>
        /\ Contains(call.prompt, call.user_query)
        /\ BlockLabels(call.prompt) = LoadedRanks
        /\ BlockNames(call.prompt)
               = [k \in 1..Len(LoadedRanks) |->
                     call.cv_results[LoadedRanks[k]].candidate_name]
        /\ Len(BlockLabels(call.prompt)) <= Len(call.cv_results)
        /\ (call.lost = {}) =>
               Len(BlockLabels(call.prompt)) = Len(call.cv_results)

\* three ranked results of which the second has no loadable summary: the
\* prompt holds the blocks of ranks 1 and 3
C21_Witness ==
    /\ call.op = "build_search_prompt"
    /\ ~call.raised
    /\ Len(call.cv_results) = 3
    /\ call.lost = {call.cv_results[2].cv_id}
    /\ BlockLabels(call.prompt) = <<1, 3>>

-----------------------------------------------------------------------------
(* Load race specification: GET /query on one event loop. __init__ creates  *)
(* a task that runs _load_conversation_history; query_cvs then awaits       *)
(* initialize() and process_query(). A coroutine runs until it awaits the   *)
(* database; the task of __init__ runs only while the request is suspended. *)

\* rows of the owner in the chat log when the request arrives
MaxLogged == 2

RaceLogs == { [i \in 1..n |-> PersistedRow(i)] : n \in 0..MaxLogged }

RaceQueries ==
    { <<"o","k"," ","t","h","e","n">>,
      <<"F","i","n","d"," ","m","o","r","e">> }

\* a load that has not fetched yet
NoFetch == [fetched |-> FALSE, loaded |-> <<>>]

InitRace ==
    /\ conversation_history = <<>>
    /\ chats \in RaceLogs
    /\ cv_embeddings = <<EmbeddingRow(1, user_id, <<3, 4>>)>>
    /\ cvs = StoredCvs
    /\ embedding_model = 0
    /\ tasks = [background |-> [pc |-> "scheduled"] @@ NoFetch,
                request |-> [pc |-> "constructed", user_query |-> <<>>,
                             context |-> <<>>, response |-> <<>>,
                             cv_results |-> PyNone] @@ NoFetch]
    /\ saved = 0
    /\ calls = 0
    /\ call = NoCall

\* the positions at which the request coroutine is suspended in an await
\* (or has finished), so that the event loop can run the task of __init__
RequestSuspended ==
    tasks.request.pc \in {"initialize", "retrieving", "composing", "saving",
                          "returned", "raised"}

\* query_cvs: HRAssistant(user_id), then initialize() up to its await of
\* get_user_chats
InitializeStart ==
    \E user_query \in RaceQueries :
        /\ tasks.request.pc = "constructed"
        /\ tasks' = [tasks EXCEPT !.request.pc = "initialize",
                                  !.request.user_query = user_query]
        /\ call' = [op |-> "initialize"]
        /\ UNCHANGED <<conversation_history, chats, cv_embeddings, cvs,
                       embedding_model, saved, calls>>

\* the task of __init__ starts and runs up to its await of get_user_chats
BackgroundStart ==
    /\ tasks.background.pc = "scheduled"
    /\ RequestSuspended
    /\ tasks' = [tasks EXCEPT !.background.pc = "awaiting"]
    /\ call' = [op |-> "create_task"]
    /\ UNCHANGED <<conversation_history, chats, cv_embeddings, cvs,
                   embedding_model, saved, calls>>

\* the database answers the get_user_chats of a load, or fails
FetchChats ==
    \E t \in {"background", "request"}, db_ok \in BOOLEAN :
        /\ tasks[t].pc = IF t = "background" THEN "awaiting" ELSE "initialize"
        /\ ~tasks[t].fetched
        /\ tasks' = [tasks EXCEPT ![t].fetched = TRUE,
                                  ![t].loaded = LoadedHistory(chats, db_ok)]
        /\ call' = [op |-> "get_user_chats", task |-> t, db_ok |-> db_ok]
        /\ UNCHANGED <<conversation_history, chats, cv_embeddings, cvs,
                       embedding_model, saved, calls>>

\* the task of __init__ resumes: lines 31-50 of _load_conversation_history
BackgroundResume ==
    /\ tasks.background.pc = "awaiting"
    /\ tasks.background.fetched
    /\ RequestSuspended
    /\ conversation_history' = tasks.background.loaded
    /\ tasks' = [tasks EXCEPT !.background.pc = "done"]
    /\ call' = [op |-> "_load_conversation_history", task |-> "background"]
    /\ UNCHANGED <<chats, cv_embeddings, cvs, embedding_model, saved, calls>>

\* initialize() resumes and returns; query_cvs enters process_query, which
\* runs up to its next await: for a chat query handle_chat and the appends
\* of add_to_history, up to the await of save_chat; for a search query up
\* to the await of search_user_cvs
InitializeResume ==
    \E ollama \in RepeatOutcomes :
        LET user_query == tasks.request.user_query
            Chat(h) ==
                /\ conversation_history' =
                       HistoryAfterAdd(tasks.request.loaded, user_query, h.ret)
                /\ tasks' = [tasks EXCEPT !.request.pc = "saving",
                                          !.request.response = h.ret]
        IN  /\ tasks.request.pc = "initialize"
            /\ tasks.request.fetched
            /\ calls' = calls + 1
            /\ IF is_cv_search_query(user_query)
               THEN /\ conversation_history' = tasks.request.loaded
                    /\ tasks' = [tasks EXCEPT !.request.pc = "retrieving"]
               ELSE Chat(handle_chat(tasks.request.loaded, user_query, ollama))
            /\ call' = [op |-> "process_query"]
            /\ UNCHANGED <<chats, cv_embeddings, cvs, embedding_model, saved>>

\* handle_cv_search resumes after search_user_cvs; build_search_prompt
\* renders the history context and awaits load_cv_summary
SearchResume ==
    /\ tasks.request.pc = "retrieving"
    /\ tasks' = [tasks EXCEPT !.request.pc = "composing",
                              !.request.context = conversation_history]
    /\ call' = [op |-> "build_search_prompt"]
    /\ UNCHANGED <<conversation_history, chats, cv_embeddings, cvs,
                   embedding_model, saved, calls>>

\* build_search_prompt resumes after its loads; run_llama, the unpacking of
\* process_query and the appends of add_to_history, up to the await of
\* save_chat
ComposeResume ==
    \E ollama \in RepeatOutcomes :
        LET user_query == tasks.request.user_query
            Unpacked(u) ==
                IF u.ok
                THEN /\ conversation_history' =
                            HistoryAfterAdd(conversation_history, user_query,
                                            u.first.s)
                     /\ tasks' = [tasks EXCEPT !.request.pc = "saving",
                                               !.request.response = u.first.s,
                                               !.request.cv_results = u.second]
                ELSE /\ tasks' = [tasks EXCEPT !.request.pc = "raised"]
                     /\ UNCHANGED conversation_history
            Handled(h) == Unpacked(Unpack2(h.ret))
        IN  /\ tasks.request.pc = "composing"
            /\ Handled(handle_cv_search(tasks.request.context, cv_embeddings,
                                        cvs, user_query,
                                        encode(embedding_model, user_query),
                                        TRUE, ollama))
            /\ call' = [op |-> "add_to_history"]
            /\ UNCHANGED <<chats, cv_embeddings, cvs, embedding_model, saved,
                           calls>>

\* save_chat answers (or raises, which add_to_history swallows);
\* process_query returns its response
SaveChat ==
    \E save_ok \in BOOLEAN :
        /\ tasks.request.pc = "saving"
        /\ chats' = ChatsAfterAdd(chats, tasks.request.user_query,
                                  tasks.request.response,
                                  tasks.request.cv_results, save_ok)
        /\ saved' = saved + Len(chats') - Len(chats)
        /\ tasks' = [tasks EXCEPT !.request.pc = "returned"]
        /\ call' = [op |-> "save_chat", save_ok |-> save_ok]
        /\ UNCHANGED <<conversation_history, cv_embeddings, cvs,
                       embedding_model, calls>>

NextRace ==
    \/ InitializeStart
    \/ BackgroundStart
    \/ FetchChats
    \/ BackgroundResume
    \/ InitializeResume
    \/ SearchResume
    \/ ComposeResume
    \/ SaveChat

SpecRace == InitRace /\ [][NextRace]_vars

-----------------------------------------------------------------------------
(* Background load claim (C27), checked under SpecRace                     *)

\* C27: once process_query has returned, the in-memory history ends with
\* the user turn and the assistant turn of its query, under every
\* interleaving with the load task of the constructor.
C27_AppendSurvivesLoad ==
    tasks.request.pc = "returned" =>
        EndsWithExchange(conversation_history, tasks.request.user_query,
                         tasks.request.response)

-----------------------------------------------------------------------------
(* Pipeline specification: the requests of one owner in flight on the      *)
(* event loop, one action per database round trip of a request             *)

\* requests in one run of the pipeline specification
MaxInFlight == 2

PipelineFiles == { FileName(1), FileName(2) }

\* the vector process_and_store_cv computes from a summary
PipelineVector == <<3, 4>>

\* a request that has not run yet: its position and its locals
NewRequest(kind, pc) ==
    [kind |-> kind, pc |-> pc, filename |-> <<>>, cv_id |-> 0,
     should_reprocess |-> FALSE, extracted |-> FALSE, summarized |-> FALSE,
     success |-> FALSE, embedded |-> FALSE, status |-> "",
     user_cvs |-> <<>>, cv_summary |-> PyNone,
     cv_results |-> <<>>, raw_results |-> <<>>, returned |-> <<>>]

\* the tables before the requests: no profile, a fully processed profile,
\* and one whose embedding step failed
PipelineStores ==
    { [cvs |-> <<>>, cv_embeddings |-> <<>>],
      [cvs |-> <<CvRow(1, user_id, FileName(1), CandidateName(1, user_id),
                       SummaryOf(CandidateName(1, user_id)),
                       "fully_processed")>>,
       cv_embeddings |-> <<EmbeddingRow(1, user_id, PipelineVector)>>],
      [cvs |-> <<CvRow(1, user_id, FileName(1), CandidateName(1, user_id),
                       SummaryOf(CandidateName(1, user_id)),
                       "partially_processed")>>,
       cv_embeddings |-> <<>>] }

InitPipeline ==
    /\ conversation_history = <<>>
    /\ chats = <<>>
    /\ \E store \in PipelineStores :
           /\ cvs = store.cvs
           /\ cv_embeddings = store.cv_embeddings
    /\ embedding_model = 0
    /\ tasks = <<>>
    /\ saved = 0
    /\ calls = 0
    /\ call = NoCall

\* request i moves to pc with the locals of changes
Resumed(i, pc, changes) ==
    [tasks EXCEPT ![i] = [pc |-> pc] @@ changes @@ tasks[i]]

\* the requests at position pc
At(kind, pc) == {i \in DOMAIN tasks : tasks[i].kind = kind /\ tasks[i].pc = pc}

\* DatabaseManager.create_cv: the id of the new row, None on a
\* UniqueViolation of (user_id, filename)
create_cv_id(cv_rows, uid, filename) ==
    IF Truthy(get_cv_by_filename(cv_rows, uid, filename)) THEN 0
    ELSE NextCvId(cv_rows)

\* process_and_store_cv: the rows of cv_embeddings after it; store_ok: the
\* summary gave usable text and the INSERT did not fail for another reason
\* than the foreign key on cvs(id)
process_and_store_cv(rows, cv_rows, uid, cv_id, store_ok) ==
    IF store_ok /\ \E i \in DOMAIN cv_rows : cv_rows[i].id = cv_id
    THEN save_cv_embedding(rows, cv_id, uid, PipelineVector)
    ELSE rows

\* a request of the owner arrives
StartRequest ==
    \E kind \in {"upload_file", "delete_file", "rebuild", "query_cvs"},
       filename \in PipelineFiles, cv_id \in 1..MaxInFlight :
        /\ Len(tasks) < MaxInFlight
        /\ calls' = calls + 1
        /\ tasks' = Append(tasks,
               IF kind = "upload_file"
               THEN [filename |-> filename] @@ NewRequest(kind, "lookup")
               ELSE IF kind = "delete_file"
               THEN [cv_id |-> cv_id] @@ NewRequest(kind, "lookup")
               ELSE IF kind = "rebuild" THEN NewRequest(kind, "list")
               ELSE NewRequest(kind, "search"))
        /\ call' = [op |-> "request", kind |-> kind]
        /\ UNCHANGED <<conversation_history, chats, cv_embeddings, cvs,
                       embedding_model, saved>>

\* upload_file: get_cv_by_filename answers
UploadLookup ==
    \E i \in At("upload_file", "lookup") :
        LET Found(existing_cv) ==
                IF ~Truthy(existing_cv)
                THEN Resumed(i, "create", [cv_id |-> 0])
                ELSE IF existing_cv.fields.processing_status # "fully_processed"
                THEN Resumed(i, "reset", [cv_id |-> existing_cv.fields.id,
                                          should_reprocess |-> TRUE])
                ELSE Resumed(i, "done", [cv_id |-> existing_cv.fields.id,
                                         status |-> "already_processed"])
        IN  /\ tasks' = Found(get_cv_by_filename(cvs, user_id,
                                                 tasks[i].filename))
            /\ call' = [op |-> "get_cv_by_filename", task |-> i]
            /\ UNCHANGED <<conversation_history, chats, cv_embeddings, cvs,
                           embedding_model, saved, calls>>

\* upload_file: the update_cv that resets the record for reprocessing
UploadReset ==
    \E i \in At("upload_file", "reset") :
        /\ cvs' = update_cv(cvs, tasks[i].cv_id, ResetKwargs)
        /\ tasks' = Resumed(i, "purge", <<>>)
        /\ call' = [op |-> "reset", task |-> i]
        /\ UNCHANGED <<conversation_history, chats, cv_embeddings,
                       embedding_model, saved, calls>>

\* upload_file: delete_cv_embeddings of the record to reprocess
UploadPurge ==
    \E i \in At("upload_file", "purge") :
        /\ cv_embeddings' = delete_cv_embeddings(cv_embeddings, tasks[i].cv_id,
                                                 user_id)
        /\ tasks' = Resumed(i, "extract", <<>>)
        /\ call' = [op |-> "purge", task |-> i]
        /\ UNCHANGED <<conversation_history, chats, cvs, embedding_model,
                       saved, calls>>

\* upload_file: create_cv of a new record; HTTP 400 when it returns None
UploadCreate ==
    \E i \in At("upload_file", "create") :
        LET Created(cv_id) ==
                IF cv_id = 0
                THEN /\ tasks' = Resumed(i, "done", [status |-> "failed"])
                     /\ UNCHANGED cvs
                ELSE /\ tasks' = Resumed(i, "extract", [cv_id |-> cv_id])
                     /\ cvs' = create_cv(cvs, user_id, tasks[i].filename)
        IN  /\ Created(create_cv_id(cvs, user_id, tasks[i].filename))
            /\ call' = [op |-> "create_cv", task |-> i]
            /\ UNCHANGED <<conversation_history, chats, cv_embeddings,
                           embedding_model, saved, calls>>

\* upload_file step 1: the text is extracted and stored, or the step fails
UploadExtract ==
    \E i \in At("upload_file", "extract"), extracted \in BOOLEAN :
        /\ cvs' = IF extracted
                  THEN update_cv(cvs, tasks[i].cv_id,
                           [original_text |->
                                PyStr(ExtractedText(tasks[i].filename)),
                            processing_status |-> PyStr("text_extracted")])
                  ELSE update_cv(cvs, tasks[i].cv_id,
                                 StatusKwargs("extraction_failed"))
        /\ tasks' = Resumed(i, IF extracted THEN "summarize" ELSE "finish",
                            [extracted |-> extracted])
        /\ call' = [op |-> "extract", task |-> i]
        /\ UNCHANGED <<conversation_history, chats, cv_embeddings,
                       embedding_model, saved, calls>>

\* upload_file step 2, run when the text was extracted: the summary is
\* stored, or the step fails
UploadSummarize ==
    \E i \in At("upload_file", "summarize"), summarized \in BOOLEAN :
        LET cv_summary == SummaryOf(CandidateName(tasks[i].cv_id, user_id))
        IN  /\ cvs' = IF summarized
                      THEN update_cv(cvs, tasks[i].cv_id,
                                     SummaryKwargs(cv_summary, "summarized"))
                      ELSE update_cv(cvs, tasks[i].cv_id,
                                     StatusKwargs("summarization_failed"))
            /\ tasks' = Resumed(i, IF summarized THEN "store" ELSE "finish",
                                [summarized |-> summarized,
                                 cv_summary |-> IF summarized THEN cv_summary
                                                ELSE PyNone])
            /\ call' = [op |-> "summarize", task |-> i]
            /\ UNCHANGED <<conversation_history, chats, cv_embeddings,
                           embedding_model, saved, calls>>

\* upload_file step 3, run when the summary was stored: process_and_store_cv
UploadStore ==
    \E i \in At("upload_file", "store"), store_ok \in BOOLEAN :
        /\ cv_embeddings' = process_and_store_cv(cv_embeddings, cvs, user_id,
                                                 tasks[i].cv_id, store_ok)
        /\ tasks' = Resumed(i, "mark",
                            [success |-> cv_embeddings' # cv_embeddings])
        /\ call' = [op |-> "store", task |-> i]
        /\ UNCHANGED <<conversation_history, chats, cvs, embedding_model,
                       saved, calls>>

\* upload_file step 3: the update_cv after process_and_store_cv
UploadMark ==
    \E i \in At("upload_file", "mark") :
        /\ cvs' = update_cv(cvs, tasks[i].cv_id,
                      StatusKwargs(IF tasks[i].success THEN "fully_processed"
                                   ELSE "embedding_failed"))
        /\ tasks' = Resumed(i, "finish", [embedded |-> tasks[i].success])
        /\ call' = [op |-> "mark", task |-> i]
        /\ UNCHANGED <<conversation_history, chats, cv_embeddings,
                       embedding_model, saved, calls>>

\* the overall status upload_file computes from its flags
overall_status(t) ==
    IF t.embedded THEN "fully_processed"
    ELSE IF t.summarized THEN "partially_processed"
    ELSE IF t.extracted THEN "text_extracted_only"
    ELSE "upload_only"

\* upload_file: the final status update, and the response
UploadFinish ==
    \E i \in At("upload_file", "finish") :
        /\ cvs' = update_cv(cvs, tasks[i].cv_id,
                            StatusKwargs(overall_status(tasks[i])))
        /\ tasks' = Resumed(i, "done", [status |-> overall_status(tasks[i])])
        /\ call' = [op |-> "upload_file", task |-> i]
        /\ UNCHANGED <<conversation_history, chats, cv_embeddings,
                       embedding_model, saved, calls>>

\* DatabaseManager.get_user_cvs: the ids of the owner's cvs rows, ORDER BY
\* created_at DESC
get_user_cvs(cv_rows, uid) ==
    LET mine == SelectSeq(cv_rows, LAMBDA c : c.user_id = uid)
    IN  Reversed([i \in DOMAIN mine |-> mine[i].id])

\* rebuild_user_embeddings: get_user_cvs answers
RebuildList ==
    \E i \in At("rebuild", "list") :
        LET Listed(user_cvs) ==
                Resumed(i, IF user_cvs = <<>> THEN "done" ELSE "get",
                        [user_cvs |-> user_cvs])
        IN  /\ tasks' = Listed(get_user_cvs(cvs, user_id))
            /\ call' = [op |-> "get_user_cvs", task |-> i]
            /\ UNCHANGED <<conversation_history, chats, cv_embeddings, cvs,
                           embedding_model, saved, calls>>

\* rebuild_user_embeddings: get_cv_by_id of the next profile answers; a
\* profile without summary is skipped
RebuildGet ==
    \E i \in At("rebuild", "get") :
        LET rest == Tail(tasks[i].user_cvs)
            Got(cv_data) ==
                IF Truthy(cv_data) /\ Truthy(cv_data.fields.summary_json)
                THEN Resumed(i, "delete",
                             [cv_id |-> Head(tasks[i].user_cvs),
                              cv_summary |-> cv_data.fields.summary_json])
                ELSE Resumed(i, IF rest = <<>> THEN "done" ELSE "get",
                             [user_cvs |-> rest])
        IN  /\ tasks' = Got(get_cv_by_id(cvs, Head(tasks[i].user_cvs), user_id))
            /\ call' = [op |-> "get_cv_by_id", task |-> i]
            /\ UNCHANGED <<conversation_history, chats, cv_embeddings, cvs,
                           embedding_model, saved, calls>>

\* rebuild_user_embeddings: delete_cv_embeddings of the profile
RebuildDelete ==
    \E i \in At("rebuild", "delete") :
        /\ cv_embeddings' = delete_cv_embeddings(cv_embeddings, tasks[i].cv_id,
                                                 user_id)
        /\ tasks' = Resumed(i, "store", [success |-> FALSE])
        /\ call' = [op |-> "delete_cv_embeddings", task |-> i]
        /\ UNCHANGED <<conversation_history, chats, cvs, embedding_model,
                       saved, calls>>

\* rebuild_user_embeddings: process_and_store_cv of the profile; the loop
\* goes on whether it succeeded or not
RebuildStore ==
    \E i \in At("rebuild", "store"), store_ok \in BOOLEAN :
        LET rest == Tail(tasks[i].user_cvs)
        IN  /\ cv_embeddings' = process_and_store_cv(cv_embeddings, cvs,
                                    user_id, tasks[i].cv_id, store_ok)
            /\ tasks' = Resumed(i, IF rest = <<>> THEN "done" ELSE "get",
                                [user_cvs |-> rest,
                                 success |-> cv_embeddings' # cv_embeddings])
            /\ call' = [op |-> "process_and_store_cv", task |-> i]
            /\ UNCHANGED <<conversation_history, chats, cvs, embedding_model,
                           saved, calls>>

\* delete_file: get_cv_by_id answers; HTTP 404 when it returns None
DeleteLookup ==
    \E i \in At("delete_file", "lookup") :
        LET Found(cv_data) ==
                IF Truthy(cv_data) THEN Resumed(i, "delete", [status |-> ""])
                ELSE Resumed(i, "done", [status |-> "not_found"])
        IN  /\ tasks' = Found(get_cv_by_id(cvs, tasks[i].cv_id, user_id))
            /\ call' = [op |-> "get_cv_by_id", task |-> i]
            /\ UNCHANGED <<conversation_history, chats, cv_embeddings, cvs,
                           embedding_model, saved, calls>>

\* delete_file: delete_cv, one transaction; the embeddings go with the row
\* (ON DELETE CASCADE)
DeleteCv ==
    \E i \in At("delete_file", "delete") :
        /\ cvs' = delete_cv(cvs, tasks[i].cv_id, user_id)
        /\ cv_embeddings' =
               IF cvs' # cvs
               THEN SelectSeq(cv_embeddings,
                              LAMBDA e : e.cv_id # tasks[i].cv_id)
               ELSE cv_embeddings
        /\ tasks' = Resumed(i, "done",
                            [status |-> IF cvs' # cvs THEN "deleted"
                                        ELSE "not_found"])
        /\ call' = [op |-> "delete_cv", task |-> i]
        /\ UNCHANGED <<conversation_history, chats, embedding_model, saved,
                       calls>>

\* the search of a query request: search_user_cvs with the count of the
\* query
PipelineSearch ==
    search_user_cvs(cv_embeddings, cvs, user_id, QueryOf(user_id),
                    encode(embedding_model, QueryOf(user_id)),
                    extract_cv_count(QueryOf(user_id)), TRUE)

\* query_cvs: the search of handle_cv_search answers; its results compose
\* the prompt and go to add_to_history
QuerySearch ==
    \E i \in At("query_cvs", "search") :
        /\ tasks' = Resumed(i, "save", [cv_results |-> PipelineSearch])
        /\ call' = [op |-> "handle_cv_search", task |-> i]
        /\ UNCHANGED <<conversation_history, chats, cv_embeddings, cvs,
                       embedding_model, saved, calls>>

\* query_cvs: save_chat of add_to_history stores the exchange
QuerySave ==
    \E i \in At("query_cvs", "save") :
        /\ chats' = Append(chats, ChatRow(QueryOf(user_id), <<"o","k">>,
                                          PyList(tasks[i].cv_results)))
        /\ tasks' = Resumed(i, "respond", [status |-> "saved"])
        /\ call' = [op |-> "save_chat", task |-> i]
        /\ UNCHANGED <<conversation_history, cv_embeddings, cvs,
                       embedding_model, saved, calls>>

\* the cv_results query_cvs returns: of the raw results, those whose
\* summary loads, with the rank of the raw result
ApiResults(raw_results, cv_rows, uid) ==
    LET ranked == [i \in DOMAIN raw_results |->
                      [rank |-> i, cv_id |-> raw_results[i].cv_id,
                       similarity_score |-> raw_results[i].similarity]]
    IN  SelectSeq(ranked,
                  LAMBDA r : Truthy(load_cv_summary(cv_rows, r.cv_id, uid)))

\* query_cvs: its own search_user_cvs after process_query returned, and the
\* response built from it
QueryRespond ==
    \E i \in At("query_cvs", "respond") :
        /\ tasks' = Resumed(i, "done",
                            [raw_results |-> PipelineSearch,
                             returned |-> ApiResults(PipelineSearch, cvs,
                                                     user_id)])
        /\ call' = [op |-> "query_cvs", task |-> i]
        /\ UNCHANGED <<conversation_history, chats, cv_embeddings, cvs,
                       embedding_model, saved, calls>>

NextPipeline ==
    \/ StartRequest
    \/ UploadLookup
    \/ UploadReset
    \/ UploadPurge
    \/ UploadCreate
    \/ UploadExtract
    \/ UploadSummarize
    \/ UploadStore
    \/ UploadMark
    \/ UploadFinish
    \/ RebuildList
    \/ RebuildGet
    \/ RebuildDelete
    \/ RebuildStore
    \/ DeleteLookup
    \/ DeleteCv
    \/ QuerySearch
    \/ QuerySave
    \/ QueryRespond

SpecPipeline == InitPipeline /\ [][NextPipeline]_vars

\* every request has returned
Quiescent == \A i \in DOMAIN tasks : tasks[i].pc = "done"

-----------------------------------------------------------------------------
(* Store claims (C24, C26, C29, C30), checked under SpecPipeline           *)

\* the cvs rows with id cv_id
RowsOf(cv_id) == {i \in DOMAIN cvs : cvs[i].id = cv_id}

\* the cv_embeddings rows of profile cv_id
EmbeddingsOf(cv_id) ==
    {i \in DOMAIN cv_embeddings : cv_embeddings[i].cv_id = cv_id}

\* the profiles and scores of a ranked list, in its order
Ranking(results, score) ==
    [i \in DOMAIN results |-> <<results[i].cv_id, results[i][score]>>]

\* C24: when a search request of /query has returned, the ranked results it
\* handed back are the ranked results the prompt was composed with and the
\* exchange was stored with, in the same order, whatever uploads, deletes
\* and rebuilds of the owner ran meanwhile.
C24_ReturnedAreComposed ==
    \A i \in At("query_cvs", "done") :
        Ranking(tasks[i].returned, "similarity_score") =
            Ranking(tasks[i].cv_results, "similarity")

\* C26: under every interleaving of uploads, re-uploads, rebuilds and
\* deletes of one owner, no profile has two rows in cv_embeddings, and no
\* profile appears twice in a ranked result list.
C26_OneEmbeddingPerProfile ==
    /\ \A i, j \in DOMAIN cv_embeddings :
           cv_embeddings[i].cv_id = cv_embeddings[j].cv_id => i = j
    /\ \A i, j \in DOMAIN PipelineSearch :
           PipelineSearch[i].cv_id = PipelineSearch[j].cv_id => i = j

\* C29: after the reset of a record that is uploaded again, the record has
\* no text, no summary and no candidate name and its status is uploading;
\* and when the reprocessing run that failed at extraction has returned,
\* the record still has none of them and the run left it no embedding.
C29_ResetClearsRecord ==
    LET Cleared(c) ==
            /\ c.original_text = PyNone
            /\ c.summary_json = PyNone
            /\ c.candidate_name = <<>>
        t == tasks[call.task]
    IN  /\ call.op = "reset" =>
               \A r \in RowsOf(t.cv_id) :
                   Cleared(cvs[r]) /\ cvs[r].processing_status = "uploading"
        /\ (call.op = "upload_file" /\ t.should_reprocess /\ ~t.extracted
                /\ Len(tasks) = 1) =>
               \A r \in RowsOf(t.cv_id) :
                   /\ Cleared(cvs[r])
                   /\ cvs[r].processing_status = "upload_only"
                   /\ EmbeddingsOf(t.cv_id) = {}

\* C30: when upload_file has run its final update, the status of the record
\* is fully_processed exactly when this run stored an embedding, and else
\* the status of the last step that succeeded; and once every request has
\* returned, every record whose status is fully_processed has an embedding.
C30_ProcessedHasEmbedding ==
    /\ call.op = "upload_file" =>
           \A r \in RowsOf(tasks[call.task].cv_id) :
               /\ cvs[r].processing_status = overall_status(tasks[call.task])
               /\ cvs[r].processing_status = "fully_processed"
                      <=> tasks[call.task].success
    /\ Quiescent =>
           \A r \in DOMAIN cvs :
               cvs[r].processing_status = "fully_processed"
                   => EmbeddingsOf(cvs[r].id) # {}


=============================================================================
